---- MODULE Spec2Model ----
(***************************************************************************)
(* A model of news_app (reacoda/news_app), a role-based news publishing    *)
(* application: the persistent store (users, publishers, articles and the  *)
(* subscription relations), the server-rendered views of views.py and the  *)
(* JSON API of api_views.py.  A request is one atomic step, from its       *)
(* permission check to its response; requests that run at the same time    *)
(* are modelled again statement by statement ("requests in steps").        *)
(***************************************************************************)
EXTENDS Integers, Sequences, FiniteSets, TLC

\* ------------------------------------------------------------------ bounds

\* Articles ever created (primary keys are 1..MaxArticles and are not reused).
MaxArticles == 2
\* Newsletters ever created (primary keys 1..MaxNewsletters, not reused).
MaxNewsletters == 1
\* The wall clock takes the values 0..MaxClock; at MaxClock it stands still.
MaxClock == 1
\* Requests that run at the same time (each slot carries one request).
MaxRequests == 2
\* The longest username of an author (AbstractUser.username has at most 150
\* characters).
MaxUsernameLength == 150

\* -------------------------------------------------------------- population

\* request.user of a request that carries no session and no token.
Anon == "anonymous"
\* Article.publisher = NULL (an independent article).
NoPublisher == "none"
\* A publisher primary key that no Publisher row has.
MissingPublisher == "p_missing"

\* The Publisher rows the store starts with.
InitialPublishers == {"p1"}

\* CustomUser.ROLE_CHOICES.
Roles == {"reader", "journalist", "editor"}

\* utils.assign_user_to_group: the group named for the role, when that group
\* exists; user.groups is cleared first, so the result is the whole set.
RoleToGroup(r) ==
    CASE r = "reader" -> "Reader"
      [] r = "journalist" -> "Journalist"
      [] r = "editor" -> "Editor"

AssignUserToGroup(r, existingGroups) ==
    IF r \in Roles /\ RoleToGroup(r) \in existingGroups
    THEN {RoleToGroup(r)}
    ELSE {}

\* A Journalist group that was also given the approval permission.
GroupPermissions_JournalistApproves(g) ==
    CASE g = "Reader" -> {"view_article", "view_newsletter"}
      [] g = "Journalist" ->
            {"view_article", "add_article", "change_article", "delete_article",
             "view_newsletter", "add_newsletter", "change_newsletter",
             "delete_newsletter", "can_approve_article"}
      [] g = "Editor" ->
            {"view_article", "change_article", "delete_article",
             "view_newsletter", "change_newsletter", "delete_newsletter",
             "can_approve_article"}

\* setup_groups / create_groups_and_permissions: the permissions of a group.
GroupPermissions(g) ==
    CASE g = "Reader" -> {"view_article", "view_newsletter"}
      [] g = "Journalist" ->
            {"view_article", "add_article", "change_article", "delete_article",
             "view_newsletter", "add_newsletter", "change_newsletter",
             "delete_newsletter"}
      [] g = "Editor" ->
            {"view_article", "change_article", "delete_article",
             "view_newsletter", "change_newsletter", "delete_newsletter",
             "can_approve_article"}

AllGroups == {"Reader", "Journalist", "Editor"}

\* The users of the store, as register_view leaves them: the role of the form
\* and the group assign_user_to_group gives.  "j2" stands for a user whose
\* email column is blank (AbstractUser.email allows it).
InitialUsers ==
    [u \in {"r1", "j1", "j2", "e1"} |->
        LET r == CASE u = "r1" -> "reader"
                   [] u \in {"j1", "j2"} -> "journalist"
                   [] u = "e1" -> "editor"
        IN [role |-> r,
            email |-> IF u = "j2" THEN "" ELSE u,
            groups |-> AssignUserToGroup(r, AllGroups)]]

\* ------------------------------------------------------------------- state

VARIABLES
    users,                  \* CustomUser rows: id -> [role, email, groups]
    articles,               \* Article rows: pk -> [title, content, author,
                            \*   publisher, created_at, updated_at, approved]
    nextId,                 \* the next Article primary key
    subscribed_publishers,  \* CustomUser.subscribed_publishers: user -> publishers
    subscribed_journalists, \* CustomUser.subscribed_journalists: user -> users
    newsletters,            \* Newsletter rows: pk -> [title, description,
                            \*   author, articles, created_at]
    nextNewsletterId,       \* the next Newsletter primary key
    publisher_journalists,  \* Publisher.journalists: publisher -> users
    publisher_editors,      \* Publisher.editors: publisher -> users
    groups,                 \* auth.Group rows (by name)
    publishers,             \* Publisher rows (by primary key)
    inflight,               \* requests under way: slot -> the handler's locals
    tweeted,                \* the last call of post_to_twitter: its article
                            \*   and the text it sent
    now,                    \* the wall clock
    resp,                   \* the last request and its response
    outbox                  \* the writes and outbound calls of the last request

\* The newsletter tables and the two member relations of Publisher.
letters == <<newsletters, nextNewsletterId>>
members == <<publisher_journalists, publisher_editors>>

\* The tables and the work in progress that the request handlers, run as one
\* step each, leave alone.
others == <<groups, publishers, inflight, tweeted>>

vars == <<users, articles, nextId, subscribed_publishers,
          subscribed_journalists, newsletters, nextNewsletterId,
          publisher_journalists, publisher_editors, groups, publishers,
          inflight, tweeted, now, resp, outbox>>

\* The Publisher rows of the store.
Publishers == publishers

store == <<users, articles, nextId, subscribed_publishers,
           subscribed_journalists, letters, members>>

UserIds == DOMAIN users
Requesters == UserIds \cup {Anon}

\* request.user.is_authenticated
IsAuthenticated(u) == u \in UserIds

\* request.user.role (of an authenticated user)
RoleOf(u) == users[u].role

\* user.has_perm("news_app.<perm>"): the permissions of the user's groups.
HasPerm(u, perm) ==
    /\ IsAuthenticated(u)
    /\ \E g \in users[u].groups : perm \in GroupPermissions(g)

\* The response recorded for a request.
Response(op, u, pk, status, msg, body) ==
    [op |-> op, user |-> u, pk |-> pk, status |-> status, msg |-> msg,
     body |-> body]

NoResponse == Response("none", Anon, 0, 0, "", <<>>)

\* post_to_twitter has not been called.
NoTweet == [title |-> <<>>, username |-> <<>>, text |-> <<>>]

Init ==
    /\ users = InitialUsers
    /\ articles = <<>>
    /\ nextId = 1
    /\ subscribed_publishers = [u \in DOMAIN InitialUsers |-> {}]
    /\ subscribed_journalists = [u \in DOMAIN InitialUsers |-> {}]
    /\ newsletters = <<>>
    /\ nextNewsletterId = 1
    /\ publisher_journalists = [p \in InitialPublishers |-> {}]
    /\ publisher_editors = [p \in InitialPublishers |-> {}]
    /\ groups = AllGroups
    /\ publishers = InitialPublishers
    /\ inflight = <<>>
    /\ tweeted = NoTweet
    /\ now = 0
    /\ resp = NoResponse
    /\ outbox = <<>>

\* A request that reads or is refused: the store is as it was.
Reply(r) ==
    /\ resp' = r
    /\ outbox' = <<>>
    /\ UNCHANGED <<store, others, now>>

\* timezone.now() advances between requests.
Tick ==
    /\ now < MaxClock
    /\ now' = now + 1
    /\ UNCHANGED <<store, others, resp, outbox>>

\* ---------------------------------------------------------- request inputs

Methods == {"GET", "POST"}

\* The primary keys a request names; one never inserted or deleted is not found.
PkInputs == 1 .. MaxArticles

\* Request bodies: title, content and the publisher chosen; one has a blank
\* title and one names a publisher that is not stored.
Body(title, content, publisher) ==
    [title |-> title, content |-> content, publisher |-> publisher]
Bodies ==
    {Body("t1", "c1", NoPublisher), Body("t1", "c1", "p1"),
     Body("t2", "c2", NoPublisher), Body("t2", "c2", "p1"),
     Body("", "c1", NoPublisher), Body("t1", "c1", MissingPublisher)}
\* A body that also carries values for author and approved, which neither
\* ArticleForm nor ArticleCreateSerializer has a field for.
ForgedBodies ==
    {[title |-> "t1", content |-> "c1", publisher |-> NoPublisher,
      author |-> "e1", approved |-> TRUE]}
\* The body of a request that carries none.
EmptyBody == Body("", "", NoPublisher)

\* ArticleForm / ArticleCreateSerializer (fields title, content, publisher):
\* title and content are required, publisher is optional and must exist.
IsValidArticleInput(body) ==
    /\ body.title # ""
    /\ body.content # ""
    /\ body.publisher \in Publishers \cup {NoPublisher}

\* ArticleSerializer on PUT: title and content are required; author and
\* publisher are nested read-only serializers, approved is read-only.
IsValidArticleUpdate(body) ==
    /\ body.title # ""
    /\ body.content # ""

\* One write or outbound call of a request, on article pk: `was` is the
\* approved flag of the row the handler loaded, `stored` the flag in the
\* store when the write or call is made.
Effect(kind, pk, to, result, was, stored) ==
    [kind |-> kind, pk |-> pk, to |-> to, result |-> result, was |-> was,
     stored |-> stored]

\* ------------------------------------------------------------ article rows

Exists(pk) == pk \in DOMAIN articles

\* A create that takes author and approved from the body when it has them.
NewArticle_TrustsBody(body, author) ==
    [title |-> body.title, content |-> body.content,
     author |-> IF "author" \in DOMAIN body THEN body.author ELSE author,
     publisher |-> body.publisher, created_at |-> now, updated_at |-> now,
     approved |-> IF "approved" \in DOMAIN body THEN body.approved ELSE FALSE]

\* Article(...).save() of a new row: auto_now_add / auto_now, approved default.
NewArticle(body, author) ==
    [title |-> body.title, content |-> body.content, author |-> author,
     publisher |-> body.publisher, created_at |-> now, updated_at |-> now,
     approved |-> FALSE]

InsertArticle(body, author) ==
    /\ nextId <= MaxArticles
    /\ articles' = articles @@ (nextId :> NewArticle(body, author))
    /\ nextId' = nextId + 1
    /\ outbox' = <<Effect("db_insert", nextId, {}, "ok", FALSE, FALSE)>>
    /\ UNCHANGED <<users, subscribed_publishers, subscribed_journalists,
                   letters, members, others, now>>

\* A form that sends an edited article back to review.
FormSave_ResetsApproval(row, body) ==
    [row EXCEPT !.title = body.title, !.content = body.content,
                !.publisher = body.publisher, !.updated_at = now,
                !.approved = FALSE]

\* ArticleForm(request.POST, instance=article).save(): the form's fields are
\* title, content and publisher; save() refreshes updated_at.
FormSave(row, body) ==
    [row EXCEPT !.title = body.title, !.content = body.content,
                !.publisher = body.publisher, !.updated_at = now]

\* A serializer whose publisher field can be written.
SerializerSave_WritesPublisher(row, body) ==
    [row EXCEPT !.title = body.title, !.content = body.content,
                !.publisher = body.publisher, !.updated_at = now]

\* ArticleSerializer(article, data=...).save(): title and content only.
SerializerSave(row, body) ==
    [row EXCEPT !.title = body.title, !.content = body.content,
                !.updated_at = now]

UpdateArticle(pk, row) ==
    /\ articles' = [articles EXCEPT ![pk] = row]
    /\ outbox' = <<Effect("db_save", pk, {}, "ok", articles[pk].approved,
                         row.approved)>>
    /\ UNCHANGED <<users, nextId, subscribed_publishers, subscribed_journalists,
                   letters, members, others, now>>

\* article.delete(): the row, and its rows in Newsletter.articles.
DeleteArticle(pk) ==
    /\ articles' = [i \in DOMAIN articles \ {pk} |-> articles[i]]
    /\ newsletters' = [n \in DOMAIN newsletters |->
                          [newsletters[n] EXCEPT !.articles = @ \ {pk}]]
    /\ outbox' = <<Effect("db_delete", pk, {}, "ok", articles[pk].approved,
                         FALSE)>>
    /\ UNCHANGED <<users, nextId, subscribed_publishers, subscribed_journalists,
                   nextNewsletterId, members, others, now>>

\* ArticleSerializer(article).data: the row and its primary key.
Serialize(pk, row) == [id |-> pk] @@ row

\* ------------------------------------------------------- approval workflow

MailOutcomes == {"sent", "failed"}
TweetOutcomes == {"201", "non_2xx", "connection_error", "timeout"}

\* A reverse relation that holds every user.
Subscribers_Everyone(p) == UserIds

\* Publisher.subscribers / CustomUser.followers: the reverse relations.
Subscribers(p) == {u \in UserIds : p \in subscribed_publishers[u]}
Followers(j) == {u \in UserIds : j \in subscribed_journalists[u]}

\* An audience that is always the author's followers.
get_article_subscribers_FollowersOnly(row) == Followers(row.author)

\* utils.get_article_subscribers
get_article_subscribers(row) ==
    IF row.publisher # NoPublisher
    THEN Subscribers(row.publisher)
    ELSE Followers(row.author)

\* A send that is tried a second time when it fails.
send_approval_emails_Retries(arts, pk, was, mail) ==
    LET subscribers == get_article_subscribers(arts[pk])
        subscriber_emails == {users[s].email : s \in subscribers} \ {""}
        send == Effect("send_mail", pk, subscriber_emails, mail, was,
                       arts[pk].approved)
    IN  IF subscribers = {} THEN <<>>
        ELSE IF subscriber_emails = {} THEN <<>>
        ELSE IF mail = "failed" THEN <<send, send>>
        ELSE <<send>>

\* utils.send_approval_emails, on the stored rows `arts`: nothing is sent to
\* an empty audience or to one without addresses; otherwise one send_mail to
\* all addresses, whose failure is caught.
send_approval_emails(arts, pk, was, mail) ==
    LET subscribers == get_article_subscribers(arts[pk])
        subscriber_emails == {users[s].email : s \in subscribers} \ {""}
    IN  IF subscribers = {} THEN <<>>
        ELSE IF subscriber_emails = {} THEN <<>>
        ELSE <<Effect("send_mail", pk, subscriber_emails, mail, was,
                      arts[pk].approved)>>

\* utils.post_to_twitter: one requests.post, whatever it answers or raises.
post_to_twitter(arts, pk, was, tweet) ==
    <<Effect("tweet", pk, {}, tweet, was, arts[pk].approved)>>

\* A save that flips the flag instead of setting it.
SaveApproved_Flips(row) ==
    [row EXCEPT !.approved = ~row.approved, !.updated_at = now]

\* article.approved = True; article.save()
SaveApproved(row) == [row EXCEPT !.approved = TRUE, !.updated_at = now]

\* An approval that is undone when a notification fails.
ApproveArticle_RollsBack(pk, mail, tweet) ==
    LET was == articles[pk].approved
        saved == [articles EXCEPT ![pk] = SaveApproved(articles[pk])]
        sent == send_approval_emails(saved, pk, was, mail)
                    \o post_to_twitter(saved, pk, was, tweet)
        failed == \E i \in DOMAIN sent : sent[i].result \notin {"sent", "201"}
    IN  /\ articles' = IF failed THEN articles ELSE saved
        /\ outbox' = <<Effect("db_save", pk, {}, "ok", was, saved[pk].approved)>>
                        \o sent
        /\ UNCHANGED <<users, nextId, subscribed_publishers,
                       subscribed_journalists, letters, members, others, now>>

\* An approval that notifies before it saves.
ApproveArticle_NotifiesFirst(pk, mail, tweet) ==
    LET was == articles[pk].approved
        saved == [articles EXCEPT ![pk] = SaveApproved(articles[pk])]
    IN  /\ articles' = saved
        /\ outbox' = send_approval_emails(articles, pk, was, mail)
                        \o post_to_twitter(articles, pk, was, tweet)
                        \o <<Effect("db_save", pk, {}, "ok", was,
                                    saved[pk].approved)>>
        /\ UNCHANGED <<users, nextId, subscribed_publishers,
                       subscribed_journalists, letters, members, others, now>>

\* The body of both approve handlers: save, then email, then the post.
ApproveArticle(pk, mail, tweet) ==
    LET was == articles[pk].approved
        saved == [articles EXCEPT ![pk] = SaveApproved(articles[pk])]
    IN  /\ articles' = saved
        /\ outbox' = <<Effect("db_save", pk, {}, "ok", was, saved[pk].approved)>>
                        \o send_approval_emails(saved, pk, was, mail)
                        \o post_to_twitter(saved, pk, was, tweet)
        /\ UNCHANGED <<users, nextId, subscribed_publishers,
                       subscribed_journalists, letters, members, others, now>>

\* ------------------------------------------------- server-rendered views

\* views.create_article_view
create_article_view(u, method, bodies) ==
    LET R(status, msg) == Response("create_article_view", u, 0, status, msg, <<>>)
    IN  IF ~IsAuthenticated(u) THEN Reply(R(302, "login"))
        ELSE IF ~HasPerm(u, "add_article") THEN Reply(R(403, ""))
        ELSE IF method = "POST"
        THEN \E body \in bodies :
                IF IsValidArticleInput(body)
                THEN /\ InsertArticle(body, u)
                     /\ resp' = Response("create_article_view", u, nextId, 302,
                                         "Article submitted for approval!", <<>>)
                ELSE Reply(R(200, "form"))
        ELSE Reply(R(200, "form"))

\* views.edit_article_view
edit_article_view(u, pk, method, bodies) ==
    LET R(status, msg) == Response("edit_article_view", u, pk, status, msg, <<>>)
    IN  IF ~IsAuthenticated(u) THEN Reply(R(302, "login"))
        ELSE IF ~HasPerm(u, "change_article") THEN Reply(R(403, ""))
        ELSE IF ~Exists(pk) THEN Reply(R(404, ""))
        ELSE IF RoleOf(u) = "journalist" /\ articles[pk].author # u
        THEN Reply(R(302, "You can only edit your own articles!"))
        ELSE IF method = "POST"
        THEN \E body \in bodies :
                IF IsValidArticleInput(body)
                THEN /\ UpdateArticle(pk, FormSave(articles[pk], body))
                     /\ resp' = R(302, "Article updated successfully!")
                ELSE Reply(R(200, "form"))
        ELSE Reply(R(200, "form"))

\* views.delete_article_view
delete_article_view(u, pk, method) ==
    LET R(status, msg) == Response("delete_article_view", u, pk, status, msg, <<>>)
    IN  IF ~IsAuthenticated(u) THEN Reply(R(302, "login"))
        ELSE IF ~HasPerm(u, "delete_article") THEN Reply(R(403, ""))
        ELSE IF ~Exists(pk) THEN Reply(R(404, ""))
        ELSE IF RoleOf(u) = "journalist" /\ articles[pk].author # u
        THEN Reply(R(302, "You can only delete your own articles!"))
        ELSE IF method = "POST"
        THEN /\ DeleteArticle(pk)
             /\ resp' = R(302, "Article deleted successfully!")
        ELSE Reply(R(200, "confirm"))

\* ---------------------------------------------------------------- JSON API

\* A journalists-only gate that lets editors through as well.
IsJournalist_OrEditor(u) ==
    IsAuthenticated(u) /\ RoleOf(u) \in {"journalist", "editor"}

\* A gate that lets every authenticated user through.
IsEditorOrJournalist_AnyUser(u) == IsAuthenticated(u)

\* api_views.IsJournalist / IsEditorOrJournalist
IsJournalist(u) == IsAuthenticated(u) /\ RoleOf(u) = "journalist"
IsEditorOrJournalist(u) ==
    IsAuthenticated(u) /\ RoleOf(u) \in {"journalist", "editor"}

\* A refusal that answers 403 to everyone.
Denied_AlwaysForbidden(u) == 403

\* A refused API request: 401 without credentials, 403 with.
Denied(u) == IF IsAuthenticated(u) THEN 403 ELSE 401

\* REST_FRAMEWORK["DEFAULT_PERMISSION_CLASSES"] of the project settings, which
\* gate the API views that name no permission class of their own.  The
\* interface description has every unauthenticated API request answered 401.
DefaultPermissionClasses == {"IsAuthenticated"}

\* ArticleDetailView.get_queryset: the rows the detail endpoint can address.
DetailQueryset == {pk \in DOMAIN articles : articles[pk].approved}

\* ArticleListView.create (POST /api/articles/)
ArticleListView_create(u, bodies) ==
    LET R(status) == Response("api_article_create", u, 0, status, "", <<>>)
    IN  IF ~IsJournalist(u) THEN Reply(R(Denied(u)))
        ELSE \E body \in bodies :
                IF IsValidArticleInput(body)
                THEN /\ InsertArticle(body, u)
                     /\ resp' = Response("api_article_create", u, nextId, 201, "",
                                     <<Serialize(nextId, NewArticle(body, u))>>)
                ELSE Reply(R(400))

\* ArticleDetailView PUT /api/articles/<pk>/
ArticleDetailView_put(u, pk, bodies) ==
    LET R(status) == Response("api_article_put", u, pk, status, "", <<>>)
    IN  IF ~IsEditorOrJournalist(u) THEN Reply(R(Denied(u)))
        ELSE IF pk \notin DetailQueryset THEN Reply(R(404))
        ELSE \E body \in bodies :
                IF IsValidArticleUpdate(body)
                THEN /\ UpdateArticle(pk, SerializerSave(articles[pk], body))
                     /\ resp' = R(200)
                ELSE Reply(R(400))

\* ArticleDetailView DELETE /api/articles/<pk>/
ArticleDetailView_delete(u, pk) ==
    LET R(status) == Response("api_article_delete", u, pk, status, "", <<>>)
    IN  IF ~IsEditorOrJournalist(u) THEN Reply(R(Denied(u)))
        ELSE IF pk \notin DetailQueryset THEN Reply(R(404))
        ELSE /\ DeleteArticle(pk)
             /\ resp' = R(204)

\* views.approve_article_view
approve_article_view(u, pk, method, mails, tweets) ==
    LET R(status, msg) == Response("approve_article_view", u, pk, status, msg, <<>>)
    IN  IF ~IsAuthenticated(u) THEN Reply(R(302, "login"))
        ELSE IF ~HasPerm(u, "can_approve_article") THEN Reply(R(403, ""))
        ELSE IF ~Exists(pk) THEN Reply(R(404, ""))
        ELSE IF method = "POST"
        THEN \E mail \in mails, tweet \in tweets :
                /\ ApproveArticle(pk, mail, tweet)
                /\ resp' = R(302, "approved!")
        ELSE Reply(R(200, "confirm"))

\* api_views.approve_article_api (POST /api/articles/<pk>/approve/).  The view
\* names no permission class: without credentials the default permission
\* class refuses, and without one request.user.role raises (500).
approve_article_api(u, pk, mails, tweets) ==
    LET R(status) == Response("approve_article_api", u, pk, status, "", <<>>)
    IN  IF ~IsAuthenticated(u)
        THEN Reply(R(IF "IsAuthenticated" \in DefaultPermissionClasses
                     THEN Denied(u) ELSE 500))
        ELSE IF RoleOf(u) # "editor" THEN Reply(R(403))
        ELSE IF ~Exists(pk) THEN Reply(R(404))
        ELSE \E mail \in mails, tweet \in tweets :
                /\ ApproveArticle(pk, mail, tweet)
                /\ resp' = Response("approve_article_api", u, pk, 200,
                                    "Article approved!",
                                    <<Serialize(pk, SaveApproved(articles[pk]))>>)

\* -------------------------------------------------------------- newsletters

\* The newsletter primary keys a request names.
NewsletterPkInputs == 1 .. MaxNewsletters

\* A newsletter request body: title, description and the articles ticked.
NewsletterBody(title, description, arts) ==
    [title |-> title, description |-> description, articles |-> arts]

\* NewsletterForm (fields title, description, articles): title and description
\* are required; articles is a multiple choice over Article.objects.all(),
\* approved or not, and may be empty.
IsValidNewsletterForm(body) ==
    /\ body.title # ""
    /\ body.description # ""
    /\ body.articles \subseteq DOMAIN articles

\* NewsletterSerializer on input: title and description are required; author
\* and articles are nested read-only serializers.
IsValidNewsletterData(body) ==
    /\ body.title # ""
    /\ body.description # ""

NewsletterExists(pk) == pk \in DOMAIN newsletters

\* Newsletter(...).save() of a new row, then its articles (form.save_m2m()).
NewNewsletter(body, author, arts) ==
    [title |-> body.title, description |-> body.description, author |-> author,
     articles |-> arts, created_at |-> now]

InsertNewsletter(body, author, arts) ==
    /\ nextNewsletterId <= MaxNewsletters
    /\ newsletters' = newsletters @@
            (nextNewsletterId :> NewNewsletter(body, author, arts))
    /\ nextNewsletterId' = nextNewsletterId + 1
    /\ outbox' = <<Effect("nl_insert", nextNewsletterId, {}, "ok", FALSE, FALSE)>>
    /\ UNCHANGED <<users, articles, nextId, subscribed_publishers,
                   subscribed_journalists, members, others, now>>

\* NewsletterForm(request.POST, instance=newsletter).save()
NewsletterFormSave(row, body) ==
    [row EXCEPT !.title = body.title, !.description = body.description,
                !.articles = body.articles]

\* NewsletterSerializer(newsletter, data=...).save(): title and description.
NewsletterSerializerSave(row, body) ==
    [row EXCEPT !.title = body.title, !.description = body.description]

UpdateNewsletter(pk, row) ==
    /\ newsletters' = [newsletters EXCEPT ![pk] = row]
    /\ outbox' = <<Effect("nl_save", pk, {}, "ok", FALSE, FALSE)>>
    /\ UNCHANGED <<users, articles, nextId, subscribed_publishers,
                   subscribed_journalists, nextNewsletterId, members, others, now>>

\* newsletter.delete()
DeleteNewsletter(pk) ==
    /\ newsletters' = [i \in DOMAIN newsletters \ {pk} |-> newsletters[i]]
    /\ outbox' = <<Effect("nl_delete", pk, {}, "ok", FALSE, FALSE)>>
    /\ UNCHANGED <<users, articles, nextId, subscribed_publishers,
                   subscribed_journalists, nextNewsletterId, members, others, now>>

\* NewsletterSerializer(newsletter).data: the row, its primary key and its
\* articles nested through ArticleSerializer (all of them, in no set order).
SerializeNewsletter(pk, row, arts) ==
    [id |-> pk, title |-> row.title, description |-> row.description,
     author |-> row.author, created_at |-> row.created_at,
     articles |-> {Serialize(a, arts[a]) : a \in row.articles}]

\* views.create_newsletter_view
create_newsletter_view(u, method, bodies) ==
    LET R(status, msg) == Response("create_newsletter_view", u, 0, status, msg, <<>>)
    IN  IF ~IsAuthenticated(u) THEN Reply(R(302, "login"))
        ELSE IF ~HasPerm(u, "add_newsletter") THEN Reply(R(403, ""))
        ELSE IF method = "POST"
        THEN \E body \in bodies :
                IF IsValidNewsletterForm(body)
                THEN /\ InsertNewsletter(body, u, body.articles)
                     /\ resp' = Response("create_newsletter_view", u,
                                         nextNewsletterId, 302,
                                         "Newsletter created successfully!", <<>>)
                ELSE Reply(R(200, "form"))
        ELSE Reply(R(200, "form"))

\* views.edit_newsletter_view
edit_newsletter_view(u, pk, method, bodies) ==
    LET R(status, msg) == Response("edit_newsletter_view", u, pk, status, msg, <<>>)
    IN  IF ~IsAuthenticated(u) THEN Reply(R(302, "login"))
        ELSE IF ~HasPerm(u, "change_newsletter") THEN Reply(R(403, ""))
        ELSE IF ~NewsletterExists(pk) THEN Reply(R(404, ""))
        ELSE IF RoleOf(u) = "journalist" /\ newsletters[pk].author # u
        THEN Reply(R(302, "You can only edit your own newsletters!"))
        ELSE IF method = "POST"
        THEN \E body \in bodies :
                IF IsValidNewsletterForm(body)
                THEN /\ UpdateNewsletter(pk, NewsletterFormSave(newsletters[pk],
                                                                body))
                     /\ resp' = R(302, "Newsletter updated!")
                ELSE Reply(R(200, "form"))
        ELSE Reply(R(200, "form"))

\* views.delete_newsletter_view: the author of the row is not looked at.
delete_newsletter_view(u, pk, method) ==
    LET R(status, msg) == Response("delete_newsletter_view", u, pk, status, msg, <<>>)
    IN  IF ~IsAuthenticated(u) THEN Reply(R(302, "login"))
        ELSE IF ~HasPerm(u, "delete_newsletter") THEN Reply(R(403, ""))
        ELSE IF ~NewsletterExists(pk) THEN Reply(R(404, ""))
        ELSE IF method = "POST"
        THEN /\ DeleteNewsletter(pk)
             /\ resp' = R(302, "Newsletter deleted!")
        ELSE Reply(R(200, "confirm"))

\* NewsletterListView.create (POST /api/newsletters/): perform_create saves
\* with author=request.user; no articles can be given.
NewsletterListView_create(u, bodies) ==
    LET R(status) == Response("api_newsletter_create", u, 0, status, "", <<>>)
    IN  IF ~IsJournalist(u) THEN Reply(R(Denied(u)))
        ELSE \E body \in bodies :
                IF IsValidNewsletterData(body)
                THEN /\ InsertNewsletter(body, u, {})
                     /\ resp' = Response("api_newsletter_create", u,
                                    nextNewsletterId, 201, "",
                                    <<SerializeNewsletter(nextNewsletterId,
                                        NewNewsletter(body, u, {}), articles)>>)
                ELSE Reply(R(400))

\* NewsletterDetailView PUT /api/newsletters/<pk>/
NewsletterDetailView_put(u, pk, bodies) ==
    LET R(status) == Response("api_newsletter_put", u, pk, status, "", <<>>)
    IN  IF ~IsEditorOrJournalist(u) THEN Reply(R(Denied(u)))
        ELSE IF ~NewsletterExists(pk) THEN Reply(R(404))
        ELSE \E body \in bodies :
                IF IsValidNewsletterData(body)
                THEN /\ UpdateNewsletter(pk,
                            NewsletterSerializerSave(newsletters[pk], body))
                     /\ resp' = R(200)
                ELSE Reply(R(400))

\* NewsletterDetailView DELETE /api/newsletters/<pk>/
NewsletterDetailView_delete(u, pk) ==
    LET R(status) == Response("api_newsletter_delete", u, pk, status, "", <<>>)
    IN  IF ~IsEditorOrJournalist(u) THEN Reply(R(Denied(u)))
        ELSE IF ~NewsletterExists(pk) THEN Reply(R(404))
        ELSE /\ DeleteNewsletter(pk)
             /\ resp' = R(204)

\* ------------------------------------------------------------ subscriptions

\* A toggle that only ever adds.
Toggle_AddOnly(S, x) == S \cup {x}

\* the toggle of both subscribe views: remove if present, add if absent
Toggle(S, x) == IF x \in S THEN S \ {x} ELSE S \cup {x}

\* views.subscribe_publisher_view (any method toggles)
subscribe_publisher_view(u, p) ==
    LET R(status, msg) == Response("subscribe_publisher_view", u, p, status, msg, <<>>)
    IN  IF ~IsAuthenticated(u) THEN Reply(R(302, "login"))
        ELSE IF p \notin Publishers THEN Reply(R(404, ""))
        ELSE /\ subscribed_publishers' =
                    [subscribed_publishers EXCEPT ![u] = Toggle(@, p)]
             /\ resp' = R(302, IF p \in subscribed_publishers[u]
                               THEN "Unsubscribed" ELSE "Subscribed")
             /\ outbox' = <<>>
             /\ UNCHANGED <<users, articles, nextId, subscribed_journalists,
                            letters, members, others, now>>

\* views.subscribe_journalist_view: the target must be a user of role journalist
subscribe_journalist_view(u, j) ==
    LET R(status, msg) == Response("subscribe_journalist_view", u, j, status, msg, <<>>)
    IN  IF ~IsAuthenticated(u) THEN Reply(R(302, "login"))
        ELSE IF ~(j \in UserIds /\ RoleOf(j) = "journalist") THEN Reply(R(404, ""))
        ELSE /\ subscribed_journalists' =
                    [subscribed_journalists EXCEPT ![u] = Toggle(@, j)]
             /\ resp' = R(302, IF j \in subscribed_journalists[u]
                               THEN "Unfollowed" ELSE "Following")
             /\ outbox' = <<>>
             /\ UNCHANGED <<users, articles, nextId, subscribed_publishers,
                            letters, members, others, now>>

\* ------------------------------------------------------------------- feeds

\* order_by("-created_at") over the rows `S`: every order of the rows with
\* created_at descending; rows of equal created_at come in either order.
OrderByCreatedDesc(S) ==
    {q \in [1 .. Cardinality(S) -> S] :
        /\ \A i, k \in DOMAIN q : i # k => q[i] # q[k]
        /\ \A i, k \in DOMAIN q :
              i < k => articles[q[i]].created_at >= articles[q[k]].created_at}

\* A filter that forgets approved=True.
SubscribedRows_Unfiltered(u) ==
    {pk \in DOMAIN articles :
        \/ articles[pk].publisher \in subscribed_publishers[u]
        \/ articles[pk].author \in subscribed_journalists[u]}

\* SubscribedArticlesView.get_queryset: one filter over the Article rows,
\* Q(publisher__in=...) | Q(author__in=...), approved=True.
SubscribedRows(u) ==
    {pk \in DOMAIN articles :
        /\ \/ articles[pk].publisher \in subscribed_publishers[u]
           \/ articles[pk].author \in subscribed_journalists[u]
        /\ articles[pk].approved}

\* A feed built as two queries, one after the other.
SubscribedArticles_Concatenated(u) ==
    LET byPublisher == {pk \in DOMAIN articles :
                            /\ articles[pk].publisher \in subscribed_publishers[u]
                            /\ articles[pk].approved}
        byAuthor == {pk \in DOMAIN articles :
                            /\ articles[pk].author \in subscribed_journalists[u]
                            /\ articles[pk].approved}
    IN  {q1 \o q2 : q1 \in OrderByCreatedDesc(byPublisher),
                    q2 \in OrderByCreatedDesc(byAuthor)}

SubscribedArticles(u) == OrderByCreatedDesc(SubscribedRows(u))

SerializeMany(q) == [i \in DOMAIN q |-> Serialize(q[i], articles[q[i]])]

\* SubscribedArticlesView GET /api/articles/subscribed/
SubscribedArticlesView_get(u) ==
    LET R(status, body) == Response("api_subscribed", u, 0, status, "", body)
    IN  IF ~IsAuthenticated(u) THEN Reply(R(401, <<>>))
        ELSE \E q \in SubscribedArticles(u) : Reply(R(200, SerializeMany(q)))

\* ------------------------------------------------------------------- reads

\* Article.objects.filter(approved=True).order_by("-created_at")
ApprovedArticles == OrderByCreatedDesc(DetailQueryset)

\* ArticleListView GET /api/articles/
ArticleListView_get(u) ==
    LET R(status, body) == Response("api_article_list", u, 0, status, "", body)
    IN  IF ~IsAuthenticated(u) THEN Reply(R(401, <<>>))
        ELSE \E q \in ApprovedArticles : Reply(R(200, SerializeMany(q)))

\* ArticleDetailView GET /api/articles/<pk>/
ArticleDetailView_get(u, pk) ==
    LET R(status, body) == Response("api_article_get", u, pk, status, "", body)
    IN  IF ~IsAuthenticated(u) THEN Reply(R(401, <<>>))
        ELSE IF pk \notin DetailQueryset THEN Reply(R(404, <<>>))
        ELSE Reply(R(200, <<Serialize(pk, articles[pk])>>))

\* views.article_list_view: open to everyone, approved articles only.
article_list_view(u) ==
    \E q \in ApprovedArticles :
        Reply(Response("article_list_view", u, 0, 200, "", SerializeMany(q)))

\* views.article_detail_view: get_object_or_404(Article, pk=pk, approved=True)
article_detail_view(u, pk) ==
    LET R(status, body) == Response("article_detail_view", u, pk, status, "", body)
    IN  IF ~(Exists(pk) /\ articles[pk].approved) THEN Reply(R(404, <<>>))
        ELSE Reply(R(200, <<Serialize(pk, articles[pk])>>))

\* views.dashboard_view: a journalist's own articles, an editor's pending and
\* approved articles, a reader's subscriptions (no articles).
dashboard_view(u) ==
    LET R(status, msg, body) == Response("dashboard_view", u, 0, status, msg, body)
        own == {pk \in DOMAIN articles : articles[pk].author = u}
        pending == {pk \in DOMAIN articles : ~articles[pk].approved}
    IN  IF ~IsAuthenticated(u) THEN Reply(R(302, "login", <<>>))
        ELSE IF RoleOf(u) = "journalist"
        THEN \E q \in OrderByCreatedDesc(own) :
                Reply(R(200, "dashboard", SerializeMany(q)))
        ELSE IF RoleOf(u) = "editor"
        THEN \E q1 \in OrderByCreatedDesc(pending), q2 \in ApprovedArticles :
                Reply(R(200, "dashboard", SerializeMany(q1 \o q2)))
        ELSE Reply(R(200, "dashboard", <<>>))

\* Newsletter.objects.all().order_by("-created_at")
NewslettersByCreatedDesc ==
    {q \in [1 .. Cardinality(DOMAIN newsletters) -> DOMAIN newsletters] :
        /\ \A i, k \in DOMAIN q : i # k => q[i] # q[k]
        /\ \A i, k \in DOMAIN q :
              i < k => newsletters[q[i]].created_at >= newsletters[q[k]].created_at}

\* NewsletterListView GET /api/newsletters/: every newsletter, each with its
\* articles nested.
NewsletterListView_get(u) ==
    LET R(status, body) == Response("api_newsletter_list", u, 0, status, "", body)
    IN  IF ~IsAuthenticated(u) THEN Reply(R(401, <<>>))
        ELSE \E q \in NewslettersByCreatedDesc :
                Reply(R(200, [i \in DOMAIN q |->
                        SerializeNewsletter(q[i], newsletters[q[i]], articles)]))

\* NewsletterDetailView GET /api/newsletters/<pk>/
NewsletterDetailView_get(u, pk) ==
    LET R(status, body) == Response("api_newsletter_get", u, pk, status, "", body)
    IN  IF ~IsAuthenticated(u) THEN Reply(R(401, <<>>))
        ELSE IF ~NewsletterExists(pk) THEN Reply(R(404, <<>>))
        ELSE Reply(R(200, <<SerializeNewsletter(pk, newsletters[pk], articles)>>))

\* views.newsletter_detail_view: open to everyone
newsletter_detail_view(u, pk) ==
    LET R(status, body) == Response("newsletter_detail_view", u, pk, status, "", body)
    IN  IF ~NewsletterExists(pk) THEN Reply(R(404, <<>>))
        ELSE Reply(R(200, <<SerializeNewsletter(pk, newsletters[pk], articles)>>))

\* ---------------------------------------------------- publisher membership

\* views.join_publisher_view
join_publisher_view_AnyRole(u, p, method) ==
    LET R(status, msg) == Response("join_publisher_view", u, p, status, msg, <<>>)
    IN  IF ~IsAuthenticated(u) THEN Reply(R(302, "login"))
        ELSE IF p \notin Publishers THEN Reply(R(404, ""))
        ELSE IF method # "POST" THEN Reply(R(200, "confirm"))
        ELSE /\ publisher_journalists' =
                    [publisher_journalists EXCEPT ![p] = @ \cup {u}]
             /\ resp' = R(302, "You joined as a journalist!")
             /\ outbox' = <<>>
             /\ UNCHANGED <<users, articles, nextId, subscribed_publishers,
                            subscribed_journalists, letters, publisher_editors,
                            others, now>>

join_publisher_view(u, p, method) ==
    LET R(status, msg) == Response("join_publisher_view", u, p, status, msg, <<>>)
    IN  IF ~IsAuthenticated(u) THEN Reply(R(302, "login"))
        ELSE IF p \notin Publishers THEN Reply(R(404, ""))
        ELSE IF method # "POST" THEN Reply(R(200, "confirm"))
        ELSE IF RoleOf(u) = "journalist"
        THEN /\ publisher_journalists' =
                    [publisher_journalists EXCEPT ![p] = @ \cup {u}]
             /\ resp' = R(302, "You joined as a journalist!")
             /\ outbox' = <<>>
             /\ UNCHANGED <<users, articles, nextId, subscribed_publishers,
                            subscribed_journalists, letters, publisher_editors,
                            others, now>>
        ELSE IF RoleOf(u) = "editor"
        THEN /\ publisher_editors' =
                    [publisher_editors EXCEPT ![p] = @ \cup {u}]
             /\ resp' = R(302, "You joined as an editor!")
             /\ outbox' = <<>>
             /\ UNCHANGED <<users, articles, nextId, subscribed_publishers,
                            subscribed_journalists, letters,
                            publisher_journalists, others, now>>
        ELSE Reply(R(302, "Only journalists and editors can join publishers!"))

\* views.leave_publisher_view
\* A leave that redirects without looking the publisher up.
leave_publisher_view_NoLookup(u, p, method) ==
    LET R(status, msg) == Response("leave_publisher_view", u, p, status, msg, <<>>)
    IN  IF ~IsAuthenticated(u) THEN Reply(R(302, "login"))
        ELSE IF method # "POST" THEN Reply(R(200, "confirm"))
        ELSE Reply(R(302, "You left"))

leave_publisher_view(u, p, method) ==
    LET R(status, msg) == Response("leave_publisher_view", u, p, status, msg, <<>>)
    IN  IF ~IsAuthenticated(u) THEN Reply(R(302, "login"))
        ELSE IF p \notin Publishers THEN Reply(R(404, ""))
        ELSE IF method # "POST" THEN Reply(R(200, "confirm"))
        ELSE IF RoleOf(u) = "journalist"
        THEN /\ publisher_journalists' =
                    [publisher_journalists EXCEPT ![p] = @ \ {u}]
             /\ resp' = R(302, "You left")
             /\ outbox' = <<>>
             /\ UNCHANGED <<users, articles, nextId, subscribed_publishers,
                            subscribed_journalists, letters, publisher_editors,
                            others, now>>
        ELSE IF RoleOf(u) = "editor"
        THEN /\ publisher_editors' =
                    [publisher_editors EXCEPT ![p] = @ \ {u}]
             /\ resp' = R(302, "You left")
             /\ outbox' = <<>>
             /\ UNCHANGED <<users, articles, nextId, subscribed_publishers,
                            subscribed_journalists, letters,
                            publisher_journalists, others, now>>
        ELSE Reply(R(302, ""))

\* ------------------------------------------------------- requests in steps

\* The handlers again, one database statement or outbound call per step, for
\* requests that run at the same time.  The views open no transaction and
\* take no lock, so between two statements of one request any statement of
\* another may run.  A request occupies a slot from its first statement on;
\* a request that is refused before it reads anything is the single step
\* modelled above.
Slots == 1 .. MaxRequests

Free(s) == s \notin DOMAIN inflight

\* The locals of a handler: the row it loaded (or the membership it saw), the
\* form data, and where it stands.
Locals(kind, u, pk, row, body, seen, pc) ==
    [kind |-> kind, user |-> u, pk |-> pk, row |-> row, body |-> body,
     seen |-> seen, pc |-> pc]

At(s, kind, pc) ==
    /\ s \in DOMAIN inflight
    /\ inflight[s].kind = kind
    /\ inflight[s].pc = pc

Goto(s, pc) == inflight' = [inflight EXCEPT ![s].pc = pc]

\* Model.save() of a loaded instance: UPDATE of every column WHERE pk, and an
\* INSERT of the row when the UPDATE matched none.
SaveRow(pk, row) == articles' = (pk :> row) @@ articles

\* edit_article_view (POST): article = get_object_or_404(Article, pk=pk), the
\* owner check, and the form bound to the instance.
edit_article_view_load(s, u, pk, body) ==
    /\ Free(s)
    /\ HasPerm(u, "change_article")
    /\ Exists(pk)
    /\ RoleOf(u) = "journalist" => articles[pk].author = u
    /\ IsValidArticleInput(body)
    /\ inflight' = inflight @@
            (s :> Locals("edit", u, pk, articles[pk], body, FALSE, "loaded"))
    /\ UNCHANGED <<store, groups, publishers, tweeted, now, resp, outbox>>

\* edit_article_view (POST): form.save() and the redirect.
edit_article_view_save(s) ==
    /\ At(s, "edit", "loaded")
    /\ SaveRow(inflight[s].pk, FormSave(inflight[s].row, inflight[s].body))
    /\ Goto(s, "done")
    /\ resp' = Response("edit_article_view", inflight[s].user, inflight[s].pk,
                        302, "Article updated successfully!", <<>>)
    /\ UNCHANGED <<users, nextId, subscribed_publishers, subscribed_journalists,
                   letters, members, groups, publishers, tweeted, now, outbox>>

\* approve_article_view (POST) / approve_article_api: the permission check
\* and the lookup of the article.
approve_article_load(s, u, pk) ==
    /\ Free(s)
    /\ HasPerm(u, "can_approve_article")
    /\ Exists(pk)
    /\ inflight' = inflight @@
            (s :> Locals("approve", u, pk, articles[pk], EmptyBody, FALSE,
                         "loaded"))
    /\ UNCHANGED <<store, groups, publishers, tweeted, now, resp, outbox>>

\* article.approved = True; article.save()
approve_article_save(s) ==
    /\ At(s, "approve", "loaded")
    /\ SaveRow(inflight[s].pk, SaveApproved(inflight[s].row))
    /\ inflight' = [inflight EXCEPT ![s].row = SaveApproved(@),
                                    ![s].pc = "saved"]
    /\ UNCHANGED <<users, nextId, subscribed_publishers, subscribed_journalists,
                   letters, members, groups, publishers, tweeted, now, resp,
                   outbox>>

\* send_approval_emails(article): the send succeeds or raises, and the
\* exception is caught.
approve_article_send_mail(s) ==
    /\ At(s, "approve", "saved")
    /\ Goto(s, "mailed")
    /\ UNCHANGED <<store, groups, publishers, tweeted, now, resp, outbox>>

\* post_to_twitter(article): requests.post(url, headers, json) is called,
\* with no timeout argument, and the handler waits for the answer.
approve_article_post(s) ==
    /\ At(s, "approve", "mailed")
    /\ Goto(s, "posting")
    /\ UNCHANGED <<store, groups, publishers, tweeted, now, resp, outbox>>

\* The social-post service answers, or the connection fails: requests.post
\* returns or raises.
TwitterAnswers(s) ==
    /\ At(s, "approve", "posting")
    /\ Goto(s, "posted")
    /\ UNCHANGED <<store, groups, publishers, tweeted, now, resp, outbox>>

\* The approve handler returns its response.
approve_article_respond(s) ==
    /\ At(s, "approve", "posted")
    /\ Goto(s, "done")
    /\ resp' = Response("approve_article_view", inflight[s].user,
                        inflight[s].pk, 302, "approved!", <<>>)
    /\ UNCHANGED <<store, groups, publishers, tweeted, now, outbox>>

\* delete_article_view (POST): the lookup and the owner check.
delete_article_view_load(s, u, pk) ==
    /\ Free(s)
    /\ HasPerm(u, "delete_article")
    /\ Exists(pk)
    /\ RoleOf(u) = "journalist" => articles[pk].author = u
    /\ inflight' = inflight @@
            (s :> Locals("delete", u, pk, articles[pk], EmptyBody, FALSE,
                         "loaded"))
    /\ UNCHANGED <<store, groups, publishers, tweeted, now, resp, outbox>>

\* delete_article_view (POST): article.delete() and the redirect.
delete_article_view_delete(s) ==
    /\ At(s, "delete", "loaded")
    /\ articles' = [i \in DOMAIN articles \ {inflight[s].pk} |-> articles[i]]
    /\ newsletters' = [n \in DOMAIN newsletters |->
                          [newsletters[n] EXCEPT
                              !.articles = @ \ {inflight[s].pk}]]
    /\ Goto(s, "done")
    /\ resp' = Response("delete_article_view", inflight[s].user,
                        inflight[s].pk, 302, "Article deleted successfully!",
                        <<>>)
    /\ UNCHANGED <<users, nextId, subscribed_publishers, subscribed_journalists,
                   nextNewsletterId, members, groups, publishers, tweeted, now,
                   outbox>>

\* subscribe_publisher_view: the lookup of the publisher and the test
\* `publisher in request.user.subscribed_publishers.all()`.
subscribe_publisher_view_read(s, u, p) ==
    /\ Free(s)
    /\ IsAuthenticated(u)
    /\ p \in Publishers
    /\ inflight' = inflight @@
            (s :> Locals("subscribe_publisher", u, p, <<>>, EmptyBody,
                         p \in subscribed_publishers[u], "read"))
    /\ UNCHANGED <<store, groups, publishers, tweeted, now, resp, outbox>>

\* subscribe_publisher_view: remove(publisher) when the test was true,
\* add(publisher) when not (both leave a membership that is already as asked
\* alone), and the redirect.
subscribe_publisher_view_write(s) ==
    /\ At(s, "subscribe_publisher", "read")
    /\ subscribed_publishers' =
            [subscribed_publishers EXCEPT
                ![inflight[s].user] = IF inflight[s].seen
                                      THEN @ \ {inflight[s].pk}
                                      ELSE @ \cup {inflight[s].pk}]
    /\ Goto(s, "done")
    /\ resp' = Response("subscribe_publisher_view", inflight[s].user,
                        inflight[s].pk, 302,
                        IF inflight[s].seen THEN "Unsubscribed" ELSE "Subscribed",
                        <<>>)
    /\ UNCHANGED <<users, articles, nextId, subscribed_journalists, letters,
                   members, groups, publishers, tweeted, now, outbox>>

\* subscribe_journalist_view: the lookup of the journalist and the test
\* `journalist in request.user.subscribed_journalists.all()`.
subscribe_journalist_view_read(s, u, j) ==
    /\ Free(s)
    /\ IsAuthenticated(u)
    /\ j \in UserIds
    /\ RoleOf(j) = "journalist"
    /\ inflight' = inflight @@
            (s :> Locals("subscribe_journalist", u, j, <<>>, EmptyBody,
                         j \in subscribed_journalists[u], "read"))
    /\ UNCHANGED <<store, groups, publishers, tweeted, now, resp, outbox>>

\* subscribe_journalist_view: remove or add, and the redirect.
subscribe_journalist_view_write(s) ==
    /\ At(s, "subscribe_journalist", "read")
    /\ subscribed_journalists' =
            [subscribed_journalists EXCEPT
                ![inflight[s].user] = IF inflight[s].seen
                                      THEN @ \ {inflight[s].pk}
                                      ELSE @ \cup {inflight[s].pk}]
    /\ Goto(s, "done")
    /\ resp' = Response("subscribe_journalist_view", inflight[s].user,
                        inflight[s].pk, 302,
                        IF inflight[s].seen THEN "Unfollowed" ELSE "Following",
                        <<>>)
    /\ UNCHANGED <<users, articles, nextId, subscribed_publishers, letters,
                   members, groups, publishers, tweeted, now, outbox>>

\* ------------------------------------------------------------ social post

\* Article.title is a CharField(max_length=255).
MaxTitleLength == 255

\* A string of n characters c (strings are sequences of characters).
Chars(c, n) == [i \in 1 .. n |-> c]

\* The fixed parts of the status text.
TweetHead ==
    <<"N", "e", "w", " ", "A", "r", "t", "i", "c", "l", "e", " ", "P", "u",
      "b", "l", "i", "s", "h", "e", "d", "!", "\n", "\n">>
TweetBy ==
    <<"\n", "\n", "B", "y", ":", " ">>
TweetTail ==
    <<"\n", "\n", "R", "e", "a", "d", " ", "i", "t", " ", "o", "n", " ",
      "N", "e", "w", "s", "A", "p", "p", "!", " ", "#", "N", "e", "w", "s",
      "A", "p", "p", " ", "#", "N", "e", "w", "s">>

\* post_to_twitter: the f-string built from the title and the username.
TweetText(title, username) ==
    TweetHead \o title \o TweetBy \o username \o TweetTail

\* The length the text may have, and the characters kept of a longer one.
TweetLimit == 280
TweetKept == 277

\* A cut that keeps 280 characters before the dots.
Truncated_KeepsLimit(text) ==
    IF Len(text) > TweetLimit
    THEN SubSeq(text, 1, TweetLimit) \o <<".", ".", ".">>
    ELSE text

\* post_to_twitter: if len(tweet_text) > 280: tweet_text[:277] + "..."
Truncated(text) ==
    IF Len(text) > TweetLimit
    THEN SubSeq(text, 1, TweetKept) \o <<".", ".", ".">>
    ELSE text

\* post_to_twitter(article) up to the request it sends: json={"text": ...}.
PostStatus ==
    /\ tweeted.text = <<>>
    /\ tweeted' = [tweeted EXCEPT
                      !.text = Truncated(TweetText(tweeted.title,
                                                   tweeted.username))]
    /\ UNCHANGED <<store, groups, publishers, inflight, now, resp, outbox>>

\* ---------------------------------------------------------------- deletion

\* The rows a deleted user authored (Article.author, on_delete=CASCADE).
ArticlesOf(u) == {pk \in DOMAIN articles : articles[pk].author = u}

\* A user deletion that leaves the user's articles and newsletters behind.
CustomUser_delete_NoCascade(u) ==
    /\ u \in UserIds
    /\ users' = [v \in UserIds \ {u} |-> users[v]]
    /\ subscribed_publishers' =
            [v \in UserIds \ {u} |-> subscribed_publishers[v]]
    /\ subscribed_journalists' =
            [v \in UserIds \ {u} |-> subscribed_journalists[v] \ {u}]
    /\ publisher_journalists' =
            [p \in DOMAIN publisher_journalists |-> publisher_journalists[p] \ {u}]
    /\ publisher_editors' =
            [p \in DOMAIN publisher_editors |-> publisher_editors[p] \ {u}]
    /\ resp' = Response("delete_user", u, 0, 0, "", <<>>)
    /\ outbox' = <<>>
    /\ UNCHANGED <<articles, nextId, letters, others, now>>

\* The admin site's delete of a CustomUser row (admin.site.register): the
\* user's articles and newsletters go with it (on_delete=CASCADE), and so do
\* the user's rows in every many-to-many relation.
CustomUser_delete(u) ==
    /\ u \in UserIds
    /\ users' = [v \in UserIds \ {u} |-> users[v]]
    /\ articles' = [pk \in DOMAIN articles \ ArticlesOf(u) |-> articles[pk]]
    /\ newsletters' =
            [n \in {k \in DOMAIN newsletters : newsletters[k].author # u} |->
                [newsletters[n] EXCEPT !.articles = @ \ ArticlesOf(u)]]
    /\ subscribed_publishers' =
            [v \in UserIds \ {u} |-> subscribed_publishers[v]]
    /\ subscribed_journalists' =
            [v \in UserIds \ {u} |-> subscribed_journalists[v] \ {u}]
    /\ publisher_journalists' =
            [p \in DOMAIN publisher_journalists |-> publisher_journalists[p] \ {u}]
    /\ publisher_editors' =
            [p \in DOMAIN publisher_editors |-> publisher_editors[p] \ {u}]
    /\ resp' = Response("delete_user", u, 0, 0, "", <<>>)
    /\ outbox' = <<>>
    /\ UNCHANGED <<nextId, nextNewsletterId, others, now>>

\* The admin site's delete of a Publisher row: its articles stay, with
\* publisher = NULL (on_delete=SET_NULL), and its rows in the subscription
\* and member relations go.
Publisher_delete(p) ==
    /\ p \in Publishers
    /\ publishers' = publishers \ {p}
    /\ articles' = [pk \in DOMAIN articles |->
                        IF articles[pk].publisher = p
                        THEN [articles[pk] EXCEPT !.publisher = NoPublisher]
                        ELSE articles[pk]]
    /\ subscribed_publishers' =
            [v \in DOMAIN subscribed_publishers |-> subscribed_publishers[v] \ {p}]
    /\ publisher_journalists' =
            [q \in DOMAIN publisher_journalists \ {p} |-> publisher_journalists[q]]
    /\ publisher_editors' =
            [q \in DOMAIN publisher_editors \ {p} |-> publisher_editors[q]]
    /\ resp' = Response("delete_publisher", Anon, p, 0, "", <<>>)
    /\ outbox' = <<>>
    /\ UNCHANGED <<users, nextId, subscribed_journalists, letters, groups,
                   inflight, tweeted, now>>

\* ------------------------------------------------------------ registration

\* The store of a fresh deployment: the tables are migrated and empty, and
\* no Group row exists until the setup_groups command has been run
\* (NewsAppConfig.ready creates none).
InitFresh ==
    /\ users = <<>>
    /\ articles = <<>>
    /\ nextId = 1
    /\ subscribed_publishers = <<>>
    /\ subscribed_journalists = <<>>
    /\ newsletters = <<>>
    /\ nextNewsletterId = 1
    /\ publisher_journalists = [p \in InitialPublishers |-> {}]
    /\ publisher_editors = [p \in InitialPublishers |-> {}]
    /\ groups = {}
    /\ publishers = InitialPublishers
    /\ inflight = <<>>
    /\ tweeted = NoTweet
    /\ now = 0
    /\ resp = NoResponse
    /\ outbox = <<>>

\* The usernames and roles a registration form carries; "admin" is not one
\* of ROLE_CHOICES.
Usernames == {"u1", "u2", "u3"}
RoleInputs == Roles \cup {"admin"}

\* UserRegistrationForm.is_valid(): the username is not taken (the email is
\* the username's, so neither is the email) and the role is a choice.
IsValidRegistration(name, role) ==
    /\ name \notin UserIds
    /\ role \in Roles

\* management command setup_groups: Group.objects.get_or_create for the
\* three groups.
setup_groups ==
    /\ groups' = groups \cup AllGroups
    /\ resp' = Response("setup_groups", Anon, 0, 0, "", <<>>)
    /\ outbox' = <<>>
    /\ UNCHANGED <<store, publishers, inflight, tweeted, now>>

\* utils.assign_user_to_group(user)
assign_user_to_group(u) ==
    /\ u \in UserIds
    /\ users' = [users EXCEPT
                    ![u].groups = AssignUserToGroup(users[u].role, groups)]
    /\ resp' = Response("assign_user_to_group", u, 0, 0, "", <<>>)
    /\ outbox' = <<>>
    /\ UNCHANGED <<articles, nextId, subscribed_publishers,
                   subscribed_journalists, letters, members, others, now>>

\* views.register_view: the requester u posts the form with a username and a
\* role; a valid form saves the user with that role, assigns the group and
\* logs the user in.
register_view(u, method, name, role) ==
    LET R(status, msg) == Response("register_view", u, 0, status, msg, <<>>)
    IN  IF IsAuthenticated(u) THEN Reply(R(302, "dashboard"))
        ELSE IF method = "POST" /\ IsValidRegistration(name, role)
        THEN /\ users' = users @@
                    (name :> [role |-> role, email |-> name,
                              groups |-> AssignUserToGroup(role, groups)])
             /\ subscribed_publishers' = subscribed_publishers @@ (name :> {})
             /\ subscribed_journalists' = subscribed_journalists @@ (name :> {})
             /\ resp' = Response("register_view", name, 0, 302, "Welcome", <<>>)
             /\ outbox' = <<>>
             /\ UNCHANGED <<articles, nextId, letters, members, others, now>>
        ELSE Reply(R(200, "form"))

\* ---------------------------------------------------------- specifications

\* Spec: the life of articles.  Every user and an anonymous client create,
\* edit, delete and approve articles through the views and through the API.
\* The clock stands still and nobody subscribes.
LifeTweets == {"201", "connection_error"}

Next ==
    \/ \E u \in Requesters, m \in Methods :
          create_article_view(u, m, Bodies \cup ForgedBodies)
    \/ \E u \in Requesters, pk \in PkInputs, m \in Methods :
          edit_article_view(u, pk, m, Bodies)
    \/ \E u \in Requesters, pk \in PkInputs, m \in Methods :
          delete_article_view(u, pk, m)
    \/ \E u \in Requesters, pk \in PkInputs, m \in Methods :
          approve_article_view(u, pk, m, {"sent"}, LifeTweets)
    \/ \E u \in Requesters : ArticleListView_create(u, Bodies \cup ForgedBodies)
    \/ \E u \in Requesters, pk \in PkInputs : ArticleDetailView_put(u, pk, Bodies)
    \/ \E u \in Requesters, pk \in PkInputs : ArticleDetailView_delete(u, pk)
    \/ \E u \in Requesters, pk \in PkInputs :
          approve_article_api(u, pk, {"sent"}, LifeTweets)

Spec == Init /\ [][Next]_vars

\* SpecApproval: approval and its notifications.  Journalists create articles
\* with and without a publisher, a reader and a user without an email address
\* subscribe and follow, editors and others approve, and the email and the
\* social post succeed or fail in every combination.
ApprovalBodies == {b \in Bodies : b.title = "t1" /\ IsValidArticleInput(b)}
ApprovalRequesters == {"e1", "j1", Anon}

NextApproval ==
    \/ \E u \in {"j1", "j2"} : ArticleListView_create(u, ApprovalBodies)
    \/ \E u \in ApprovalRequesters, pk \in PkInputs, m \in Methods :
          approve_article_view(u, pk, m, MailOutcomes, TweetOutcomes)
    \/ \E u \in ApprovalRequesters, pk \in PkInputs :
          approve_article_api(u, pk, MailOutcomes, TweetOutcomes)
    \/ \E u \in {"r1", "j2"} : subscribe_publisher_view(u, "p1")
    \/ subscribe_journalist_view("r1", "j1")

SpecApproval == Init /\ [][NextApproval]_vars

\* SpecFeed: subscriptions and the subscribed feed over time.  The clock
\* advances, journalists create articles, an editor approves and deletes
\* them, and users toggle subscriptions and read their feed.
FeedTogglers == {"r1", Anon}
PublisherTargets == Publishers \cup {MissingPublisher}
JournalistTargets == {"j1", "e1"}

NextFeed ==
    \/ Tick
    \/ \E u \in {"j1", "j2"} : ArticleListView_create(u, ApprovalBodies)
    \/ \E pk \in PkInputs : approve_article_api("e1", pk, {"sent"}, {"201"})
    \/ \E pk \in PkInputs :
          approve_article_view("e1", pk, "POST", {"sent"}, {"201"})
    \/ \E pk \in PkInputs : ArticleDetailView_delete("e1", pk)
    \/ \E u \in FeedTogglers, p \in PublisherTargets :
          subscribe_publisher_view(u, p)
    \/ \E u \in FeedTogglers, j \in JournalistTargets :
          subscribe_journalist_view(u, j)
    \/ \E u \in {"r1", "e1", Anon} : SubscribedArticlesView_get(u)

SpecFeed == Init /\ [][NextFeed]_vars

\* SpecContent: who may change what.  Users of every role create, edit and
\* delete articles and newsletters through the views and through the API, and
\* an editor approves; the clock stands still and nobody subscribes.
ContentUsers == {"r1", "j1", "j2", "e1"}
ContentCreateBodies == {Body("t1", "c1", NoPublisher)}
ContentEditBodies == {Body("t2", "c2", NoPublisher)}
NewsletterCreateBodies == {NewsletterBody("n1", "d1", {}), NewsletterBody("n1", "d1", {1})}
NewsletterEditBodies == {NewsletterBody("n2", "d2", {})}

NextContent ==
    \/ \E u \in ContentUsers : create_article_view(u, "POST", ContentCreateBodies)
    \/ \E u \in ContentUsers : ArticleListView_create(u, ContentCreateBodies)
    \/ \E u \in ContentUsers, pk \in PkInputs :
          approve_article_api(u, pk, {"sent"}, {"201"})
    \/ \E u \in ContentUsers, pk \in PkInputs :
          approve_article_view(u, pk, "POST", {"sent"}, {"201"})
    \/ \E u \in ContentUsers, pk \in PkInputs :
          edit_article_view(u, pk, "POST", ContentEditBodies)
    \/ \E u \in ContentUsers, pk \in PkInputs :
          delete_article_view(u, pk, "POST")
    \/ \E u \in ContentUsers, pk \in PkInputs :
          ArticleDetailView_put(u, pk, ContentEditBodies)
    \/ \E u \in ContentUsers, pk \in PkInputs : ArticleDetailView_delete(u, pk)
    \/ \E u \in ContentUsers :
          create_newsletter_view(u, "POST", NewsletterCreateBodies)
    \/ \E u \in ContentUsers :
          NewsletterListView_create(u, NewsletterCreateBodies)
    \/ \E u \in ContentUsers, pk \in NewsletterPkInputs :
          edit_newsletter_view(u, pk, "POST", NewsletterEditBodies)
    \/ \E u \in ContentUsers, pk \in NewsletterPkInputs :
          delete_newsletter_view(u, pk, "POST")
    \/ \E u \in ContentUsers, pk \in NewsletterPkInputs :
          NewsletterDetailView_put(u, pk, NewsletterEditBodies)
    \/ \E u \in ContentUsers, pk \in NewsletterPkInputs :
          NewsletterDetailView_delete(u, pk)

SpecContent == Init /\ [][NextContent]_vars

\* SpecReads: what readers and anonymous clients get.  A journalist creates
\* articles and a newsletter, an editor approves, a reader follows the
\* journalist and reads every list and detail, and a client without
\* credentials tries every endpoint.
Readers == {"r1", Anon}

NextReads ==
    \/ \E u \in {"j1", Anon} : ArticleListView_create(u, ContentCreateBodies)
    \/ \E u \in {"e1", Anon}, pk \in PkInputs :
          approve_article_api(u, pk, {"sent"}, {"201"})
    \/ \E u \in {"j1", Anon} :
          create_newsletter_view(u, "POST", NewsletterCreateBodies)
    \/ \E u \in Readers : subscribe_journalist_view(u, "j1")
    \/ subscribe_publisher_view(Anon, "p1")
    \/ \E u \in Readers : ArticleListView_get(u)
    \/ \E u \in Readers, pk \in PkInputs : ArticleDetailView_get(u, pk)
    \/ \E u \in Readers : article_list_view(u)
    \/ \E u \in Readers, pk \in PkInputs : article_detail_view(u, pk)
    \/ \E u \in Readers : SubscribedArticlesView_get(u)
    \/ \E u \in Readers : NewsletterListView_get(u)
    \/ \E u \in Readers, pk \in NewsletterPkInputs : NewsletterDetailView_get(u, pk)
    \/ \E u \in Readers : dashboard_view(u)
    \/ \E m \in Methods : create_article_view(Anon, m, ContentCreateBodies)
    \/ \E pk \in PkInputs, m \in Methods :
          edit_article_view(Anon, pk, m, ContentEditBodies)
    \/ \E pk \in PkInputs, m \in Methods : delete_article_view(Anon, pk, m)
    \/ \E pk \in PkInputs, m \in Methods :
          approve_article_view(Anon, pk, m, {"sent"}, {"201"})
    \/ \E pk \in PkInputs : ArticleDetailView_put(Anon, pk, ContentEditBodies)
    \/ \E pk \in PkInputs : ArticleDetailView_delete(Anon, pk)
    \/ NewsletterListView_create(Anon, NewsletterCreateBodies)
    \/ \E pk \in NewsletterPkInputs, m \in Methods :
          edit_newsletter_view(Anon, pk, m, NewsletterEditBodies)
    \/ \E pk \in NewsletterPkInputs, m \in Methods :
          delete_newsletter_view(Anon, pk, m)
    \/ \E pk \in NewsletterPkInputs :
          NewsletterDetailView_put(Anon, pk, NewsletterEditBodies)
    \/ \E pk \in NewsletterPkInputs : NewsletterDetailView_delete(Anon, pk)
    \/ \E m \in Methods : join_publisher_view(Anon, "p1", m)
    \/ \E m \in Methods : leave_publisher_view(Anon, "p1", m)

SpecReads == Init /\ [][NextReads]_vars

\* Publisher membership: every user and the anonymous client ask to join and
\* to leave, by GET and by POST, a stored publisher and a missing one, while
\* users toggle their subscription to the publisher.
NextMembership ==
    \/ \E u \in Requesters, p \in PublisherTargets, m \in Methods :
          join_publisher_view(u, p, m)
    \/ \E u \in Requesters, p \in PublisherTargets, m \in Methods :
          leave_publisher_view(u, p, m)
    \/ \E u \in {"r1", "j1"} : subscribe_publisher_view(u, "p1")

SpecMembership == Init /\ [][NextMembership]_vars

\* SpecLookups: requests that name an id.  A journalist creates articles
\* and a newsletter and an editor approves; then every user and the anonymous
\* client address every article and newsletter id, stored or not, through
\* every view and endpoint that takes one, and a publisher id that is not
\* stored.
NextLookups ==
    \/ create_article_view("j1", "POST", ContentCreateBodies)
    \/ create_newsletter_view("j1", "POST", NewsletterEditBodies)
    \/ \E u \in Requesters, pk \in PkInputs :
          approve_article_api(u, pk, {"sent"}, {"201"})
    \/ \E u \in Requesters, pk \in PkInputs, m \in Methods :
          approve_article_view(u, pk, m, {"sent"}, {"201"})
    \/ \E u \in Requesters, pk \in PkInputs, m \in Methods :
          edit_article_view(u, pk, m, ContentCreateBodies)
    \/ \E u \in Requesters, pk \in PkInputs, m \in Methods :
          delete_article_view(u, pk, m)
    \/ \E u \in Requesters, pk \in PkInputs :
          ArticleDetailView_put(u, pk, ContentCreateBodies)
    \/ \E u \in Requesters, pk \in PkInputs : ArticleDetailView_delete(u, pk)
    \/ \E u \in Requesters, pk \in PkInputs : ArticleDetailView_get(u, pk)
    \/ \E u \in Requesters, pk \in PkInputs : article_detail_view(u, pk)
    \/ \E u \in Requesters, pk \in NewsletterPkInputs, m \in Methods :
          edit_newsletter_view(u, pk, m, NewsletterEditBodies)
    \/ \E u \in Requesters, pk \in NewsletterPkInputs, m \in Methods :
          delete_newsletter_view(u, pk, m)
    \/ \E u \in Requesters, pk \in NewsletterPkInputs :
          NewsletterDetailView_put(u, pk, NewsletterEditBodies)
    \/ \E u \in Requesters, pk \in NewsletterPkInputs :
          NewsletterDetailView_delete(u, pk)
    \/ \E u \in Requesters, pk \in NewsletterPkInputs :
          NewsletterDetailView_get(u, pk)
    \/ \E u \in Requesters, pk \in NewsletterPkInputs :
          newsletter_detail_view(u, pk)
    \/ \E u \in Requesters : subscribe_publisher_view(u, MissingPublisher)
    \/ \E u \in Requesters, m \in Methods :
          join_publisher_view(u, MissingPublisher, m)
    \/ \E u \in Requesters, m \in Methods :
          leave_publisher_view(u, MissingPublisher, m)

SpecLookups == Init /\ [][NextLookups]_vars

\* SpecRegistration: a fresh deployment.  Visitors register under every
\* role, logged-in users open the registration page, the setup_groups command
\* is run at any moment, and assign_user_to_group is called again on stored
\* users.
NextRegistration ==
    \/ setup_groups
    \/ \E u \in Usernames \cup {Anon}, m \in Methods, name \in Usernames,
          role \in RoleInputs : register_view(u, m, name, role)
    \/ \E u \in Usernames : assign_user_to_group(u)

SpecRegistration == InitFresh /\ [][NextRegistration]_vars

\* SpecDeletion: rows that others refer to are deleted.  Journalists write
\* articles with and without a publisher and a newsletter that holds an
\* article, a reader subscribes and follows, a journalist and an editor join
\* the publisher, and then articles, users and the publisher are deleted.
DeletionBodies == {Body("t1", "c1", NoPublisher), Body("t1", "c1", "p1")}

NextDeletion ==
    \/ \E u \in {"j1", "j2"} : create_article_view(u, "POST", DeletionBodies)
    \/ create_newsletter_view("j2", "POST", NewsletterCreateBodies)
    \/ subscribe_publisher_view("r1", "p1")
    \/ subscribe_journalist_view("r1", "j1")
    \/ \E u \in {"j1", "e1"} : join_publisher_view(u, "p1", "POST")
    \/ \E pk \in PkInputs : delete_article_view("e1", pk, "POST")
    \/ \E u \in {"r1", "j1", "e1"} : CustomUser_delete(u)
    \/ Publisher_delete("p1")

SpecDeletion == Init /\ [][NextDeletion]_vars

\* SpecTweet: post_to_twitter on articles of every title length and authors
\* of every username length.
InitTweet ==
    /\ users = InitialUsers
    /\ articles = <<>>
    /\ nextId = 1
    /\ subscribed_publishers = [u \in DOMAIN InitialUsers |-> {}]
    /\ subscribed_journalists = [u \in DOMAIN InitialUsers |-> {}]
    /\ newsletters = <<>>
    /\ nextNewsletterId = 1
    /\ publisher_journalists = [p \in InitialPublishers |-> {}]
    /\ publisher_editors = [p \in InitialPublishers |-> {}]
    /\ groups = AllGroups
    /\ publishers = InitialPublishers
    /\ inflight = <<>>
    /\ tweeted \in {[title |-> Chars("t", n), username |-> Chars("u", k),
                     text |-> <<>>] :
                        n \in 1 .. MaxTitleLength, k \in 1 .. MaxUsernameLength}
    /\ now = 0
    /\ resp = NoResponse
    /\ outbox = <<>>

NextTweet == PostStatus

SpecTweet == InitTweet /\ [][NextTweet]_vars

\* SpecRaces: requests on one article at the same time.  A journalist
\* creates articles; then edits, approvals and deletions of them run in the
\* slots, statement by statement, in every order.
RaceUsers == {"j1", "e1"}

NextRaces ==
    \/ ArticleListView_create("j1", ContentCreateBodies)
    \/ \E s \in Slots, u \in RaceUsers, pk \in PkInputs,
          body \in ContentEditBodies : edit_article_view_load(s, u, pk, body)
    \/ \E s \in Slots : edit_article_view_save(s)
    \/ \E s \in Slots, u \in RaceUsers, pk \in PkInputs :
          approve_article_load(s, u, pk)
    \/ \E s \in Slots : approve_article_save(s)
    \/ \E s \in Slots : approve_article_send_mail(s)
    \/ \E s \in Slots : approve_article_post(s)
    \/ \E s \in Slots : TwitterAnswers(s)
    \/ \E s \in Slots : approve_article_respond(s)
    \/ \E s \in Slots, u \in RaceUsers, pk \in PkInputs :
          delete_article_view_load(s, u, pk)
    \/ \E s \in Slots : delete_article_view_delete(s)

SpecRaces == Init /\ [][NextRaces]_vars

\* SpecRacesLive: the same requests, where every statement of a handler that
\* can run does run in the end.  Only the answer of the social-post service
\* is not promised: requests.post is called without a timeout, so nothing in
\* the handler ends the wait.
SpecRacesLive ==
    /\ Init
    /\ [][NextRaces]_vars
    /\ \A s \in Slots :
          /\ WF_vars(approve_article_save(s))
          /\ WF_vars(approve_article_send_mail(s))
          /\ WF_vars(approve_article_post(s))
          /\ WF_vars(approve_article_respond(s))
          /\ WF_vars(edit_article_view_save(s))
          /\ WF_vars(delete_article_view_delete(s))

\* SpecToggles: subscription toggles at the same time.  Users toggle their
\* subscription to the publisher and to the journalists, read and write as
\* separate steps, in every order.
NextToggles ==
    \/ \E s \in Slots, u \in UserIds :
          subscribe_publisher_view_read(s, u, "p1")
    \/ \E s \in Slots : subscribe_publisher_view_write(s)
    \/ \E s \in Slots, u \in {"r1", "e1"}, j \in {"j1", "j2"} :
          subscribe_journalist_view_read(s, u, j)
    \/ \E s \in Slots : subscribe_journalist_view_write(s)

SpecToggles == Init /\ [][NextToggles]_vars

\* ------------------------------------------------------------------ claims

ApproveOps == {"approve_article_view", "approve_article_api"}

\* The last request was an approve that went through: the API answered 200,
\* or the view redirected with its success message.
ApproveSucceeded ==
    /\ resp.op \in ApproveOps
    /\ \/ resp.op = "approve_article_api" /\ resp.status = 200
       \/ resp.op = "approve_article_view" /\ resp.status = 302
                                           /\ resp.msg = "approved!"

\* The rows stored before and after a step.
Kept == DOMAIN articles \cap DOMAIN articles'

\* C1: over any sequence of create, edit, approve and delete requests on both
\* surfaces, no stored article's approved flag goes from true to false; the
\* only change ever made to the flag of a stored article is false to true,
\* and the request that makes it is an approve of that article.
C1_ApprovedNeverReverts ==
    [][\A pk \in Kept :
          /\ articles[pk].approved => articles'[pk].approved
          /\ articles[pk].approved # articles'[pk].approved =>
                /\ ~articles[pk].approved /\ articles'[pk].approved
                /\ resp'.op \in ApproveOps /\ resp'.pk = pk]_vars

\* C1 witness: an approved article was edited through the form and is still
\* approved.
C1_Witness ==
    /\ resp.op = "edit_article_view"
    /\ resp.msg = "Article updated successfully!"
    /\ Exists(resp.pk)
    /\ articles[resp.pk].approved
    /\ outbox # <<>> /\ outbox[1].was

\* C2: the flag of a stored article goes from false to true only in an
\* approve request made by a user of role editor; an approve request of a
\* reader or a journalist, through the view or the API, is answered 403,
\* changes no article and makes no write and no outbound call.
C2_OnlyEditorsApprove ==
    [][/\ \A pk \in Kept :
             ~articles[pk].approved /\ articles'[pk].approved =>
                /\ resp'.op \in ApproveOps /\ resp'.pk = pk
                /\ IsAuthenticated(resp'.user)
                /\ RoleOf(resp'.user) = "editor"
       /\ ( /\ resp'.op \in ApproveOps
            /\ IsAuthenticated(resp'.user)
            /\ RoleOf(resp'.user) \in {"reader", "journalist"} ) =>
                /\ resp'.status = 403
                /\ articles' = articles
                /\ outbox' = <<>>]_vars

\* C2 witness: a journalist asked the view to approve their own pending
\* article and got 403; the article is still pending.
C2_Witness ==
    /\ resp.op = "approve_article_view"
    /\ resp.user = "j1"
    /\ resp.status = 403
    /\ Exists(resp.pk)
    /\ articles[resp.pk].author = "j1"
    /\ ~articles[resp.pk].approved

\* An editor posted an approve of a stored article: the case the approval
\* workflow is about (the view's GET only shows its confirm page).
EditorApprovePosted ==
    /\ resp.op \in ApproveOps
    /\ IsAuthenticated(resp.user)
    /\ RoleOf(resp.user) = "editor"
    /\ Exists(resp.pk)
    /\ resp.msg # "confirm"

\* The effects of one kind among those of the last request.
Count(kind) == Cardinality({i \in DOMAIN outbox : outbox[i].kind = kind})

EmailFailed ==
    \E i \in DOMAIN outbox :
        outbox[i].kind = "send_mail" /\ outbox[i].result = "failed"
PostFailed ==
    \E i \in DOMAIN outbox :
        outbox[i].kind = "tweet" /\ outbox[i].result # "201"

\* C3: when an editor approves a stored article and the email send fails,
\* the social post fails (connection error, timeout or a non-2xx answer), or
\* both, the request still answers success and the article is stored with
\* approved = true.
C3_FailureKeepsApproval ==
    (EditorApprovePosted /\ (EmailFailed \/ PostFailed)) =>
        /\ ApproveSucceeded
        /\ articles[resp.pk].approved

\* C3 witness: a first approval whose email failed and whose post timed out
\* answered success and is stored.
C3_Witness ==
    /\ EditorApprovePosted
    /\ EmailFailed
    /\ \E i \in DOMAIN outbox :
          outbox[i].kind = "tweet" /\ outbox[i].result = "timeout"
    /\ ~outbox[1].was
    /\ ApproveSucceeded
    /\ articles[resp.pk].approved

\* C4: within one approve the order is: persist approved = true, then the
\* email step, then the social post.  Every notification is made with the
\* flag already true in the store, and the post is made whether the email was
\* sent, failed, or was skipped for an empty audience.
C4_SaveThenEmailThenPost ==
    /\ \A i \in DOMAIN outbox :
          outbox[i].kind \in {"send_mail", "tweet"} =>
              outbox[i].stored /\ articles[outbox[i].pk].approved
    /\ EditorApprovePosted =>
          /\ Len(outbox) \in {2, 3}
          /\ outbox[1].kind = "db_save" /\ outbox[1].stored
          /\ outbox[Len(outbox)].kind = "tweet"
          /\ Len(outbox) = 3 => outbox[2].kind = "send_mail"

\* C4 witness: a first approval saved, then sent an email that failed, then
\* posted.
C4_Witness ==
    /\ EditorApprovePosted
    /\ Len(outbox) = 3
    /\ ~outbox[1].was
    /\ outbox[2].kind = "send_mail" /\ outbox[2].result = "failed"
    /\ outbox[3].kind = "tweet"

\* The audience of a stored article, read off the two relations: the users
\* who have its publisher among their publishers when it has one, the users
\* who have its author among their journalists when it has none.
Audience(pk) ==
    IF articles[pk].publisher \in Publishers
    THEN {u \in UserIds : articles[pk].publisher \in subscribed_publishers[u]}
    ELSE {u \in UserIds : articles[pk].author \in subscribed_journalists[u]}

Addresses(S) == {users[u].email : u \in S} \ {""}

\* C5 as stated: every approve of a stored article by an editor makes exactly
\* one email send attempt and exactly one social post attempt.
C5_ExactlyOneEmailAndPost ==
    EditorApprovePosted => Count("send_mail") = 1 /\ Count("tweet") = 1

\* C5 as amended: every approve of a stored article by an editor makes
\* exactly one social post attempt, and one email send attempt when the
\* audience has an address and none when it has not; a failed attempt is not
\* made again.
C5_AtMostOneEmailOnePost ==
    EditorApprovePosted =>
        /\ Count("tweet") = 1
        /\ Count("send_mail") =
              IF Addresses(Audience(resp.pk)) # {} THEN 1 ELSE 0

\* C5 witness: an approval whose email and post both failed made one attempt
\* of each.
C5_Witness ==
    /\ EditorApprovePosted
    /\ EmailFailed /\ PostFailed
    /\ Count("send_mail") = 1 /\ Count("tweet") = 1

\* C6: the audience of an article is exactly the subscribers of its
\* publisher when it has one and exactly the followers of its author when it
\* has none, and the email of an approval goes to the addresses of that
\* audience.
C6_AudienceOfArticle ==
    /\ \A pk \in DOMAIN articles :
          get_article_subscribers(articles[pk]) = Audience(pk)
    /\ EditorApprovePosted =>
          \A i \in DOMAIN outbox :
              outbox[i].kind = "send_mail" =>
                  outbox[i].to = Addresses(Audience(resp.pk))

\* C6 witness: an article with a publisher, whose author nobody follows, was
\* approved; the publisher has two subscribers, one without an address, and
\* the email went to the address of the other.
C6_Witness ==
    /\ EditorApprovePosted
    /\ articles[resp.pk].publisher = "p1"
    /\ articles[resp.pk].author = "j1"
    /\ subscribed_publishers["r1"] = {"p1"}
    /\ subscribed_publishers["j2"] = {"p1"}
    /\ subscribed_journalists["r1"] = {}
    /\ Count("send_mail") = 1
    /\ outbox[2].to = {"r1"}

\* A step in which an editor's approve of the stored article resp'.pk went
\* through (a request reads the clock and does not move it).
EditorApproveStep ==
    /\ now' = now
    /\ EditorApprovePosted'
    /\ ApproveSucceeded'
    /\ Exists(resp'.pk)

\* C7 as stated: approving a pending article sets approved = true, and an
\* editor's approve of an already approved article leaves the stored articles
\* as they were.
C7_ReapproveChangesNothing ==
    [][EditorApproveStep =>
          /\ articles'[resp'.pk].approved
          /\ articles[resp'.pk].approved => articles' = articles]_vars

\* C7 as amended: an editor's approve sets approved = true and updated_at to
\* the time of the request and changes nothing else, in that article or in
\* any other; on an already approved article only updated_at is rewritten.
C7_ReapproveRewritesUpdatedAtOnly ==
    [][EditorApproveStep =>
          /\ articles'[resp'.pk].approved
          /\ articles' = [articles EXCEPT ![resp'.pk].approved = TRUE,
                                          ![resp'.pk].updated_at = now]
          /\ articles[resp'.pk].approved =>
                articles'[resp'.pk] =
                    [articles[resp'.pk] EXCEPT !.updated_at = now]]_vars

\* C7 witness: an approved article was approved again, after the time it was
\* created at; it is still approved.
C7_Witness ==
    /\ EditorApprovePosted /\ ApproveSucceeded
    /\ outbox[1].kind = "db_save" /\ outbox[1].was
    /\ articles[resp.pk].approved
    /\ articles[resp.pk].updated_at > articles[resp.pk].created_at

\* The last request was a subscribed feed that was answered.
FeedAnswered == resp.op = "api_subscribed" /\ resp.status = 200

Ids(body) == {body[i].id : i \in DOMAIN body}

\* C8: for every user and every store the subscribed feed holds exactly the
\* approved articles whose publisher the user subscribes to or whose author
\* the user follows: every approved article of a followed journalist is in
\* it, no unapproved article is, and a user who subscribes to one publisher
\* and follows nobody gets exactly that publisher's approved articles.
C8_FeedIsSubscribedApproved ==
    /\ \A u \in UserIds : \A q \in SubscribedArticles(u) :
          {q[i] : i \in DOMAIN q} =
              {pk \in DOMAIN articles :
                  /\ articles[pk].approved
                  /\ \/ u \in Subscribers(articles[pk].publisher)
                     \/ u \in Followers(articles[pk].author)}
    /\ FeedAnswered =>
          LET u == resp.user
              got == Ids(resp.body)
          IN  /\ got = {pk \in DOMAIN articles :
                          /\ articles[pk].approved
                          /\ \/ u \in Subscribers(articles[pk].publisher)
                             \/ u \in Followers(articles[pk].author)}
              /\ \A i \in DOMAIN resp.body :
                    resp.body[i] = Serialize(resp.body[i].id,
                                             articles[resp.body[i].id])
              /\ \A pk \in DOMAIN articles :
                    (articles[pk].approved
                        /\ articles[pk].author \in subscribed_journalists[u])
                    => pk \in got
              /\ \A pk \in got : articles[pk].approved
              /\ \A p \in Publishers :
                    (subscribed_publishers[u] = {p}
                        /\ subscribed_journalists[u] = {})
                    => got = {pk \in DOMAIN articles :
                                articles[pk].approved
                                    /\ articles[pk].publisher = p}

\* C8 witness: a reader who subscribes to p1 and follows nobody read the
\* feed while p1 had an approved article and the store another article that
\* is not in the feed; the feed is the one article.
C8_Witness ==
    /\ FeedAnswered
    /\ resp.user = "r1"
    /\ subscribed_publishers["r1"] = {"p1"}
    /\ subscribed_journalists["r1"] = {}
    /\ Len(resp.body) = 1
    /\ resp.body[1].publisher = "p1"
    /\ Cardinality(DOMAIN articles) = 2

\* C9: the feed is a union without duplication, newest first: no article is
\* in it twice, also when its publisher is subscribed to and its author is
\* followed, and created_at never increases along it.
C9_FeedDistinctNewestFirst ==
    /\ \A u \in UserIds : \A q \in SubscribedArticles(u) :
          \A i, k \in DOMAIN q : i # k => q[i] # q[k]
    /\ FeedAnswered =>
          \A i, k \in DOMAIN resp.body :
              /\ i # k => resp.body[i].id # resp.body[k].id
              /\ i < k => resp.body[i].created_at >= resp.body[k].created_at

\* C9 witness: a feed of two articles, the newer first, whose first article
\* matches by its publisher and by its author.
C9_Witness ==
    /\ FeedAnswered
    /\ Len(resp.body) = 2
    /\ resp.body[1].publisher \in subscribed_publishers[resp.user]
    /\ resp.body[1].author \in subscribed_journalists[resp.user]
    /\ resp.body[1].created_at > resp.body[2].created_at

\* A step that is a subscription toggle of a signed-in user for a stored
\* target.
TogglePublisherStep ==
    /\ now' = now
    /\ resp'.op = "subscribe_publisher_view"
    /\ IsAuthenticated(resp'.user)
    /\ resp'.pk \in Publishers
ToggleJournalistStep ==
    /\ now' = now
    /\ resp'.op = "subscribe_journalist_view"
    /\ IsAuthenticated(resp'.user)
    /\ resp'.pk \in UserIds
    /\ RoleOf(resp'.pk) = "journalist"

\* C10: one toggle request always changes the requester's membership for its
\* target (adds it if absent, removes it if present) and no other
\* membership, and a second toggle of the same target by the same user, next
\* after the first, puts the relation back as it was before the first.
C10_ToggleFlipsAndPairsRestore ==
    [][/\ TogglePublisherStep =>
            /\ (resp'.pk \in subscribed_publishers'[resp'.user])
                  # (resp'.pk \in subscribed_publishers[resp'.user])
            /\ \A u \in UserIds, p \in Publishers :
                  <<u, p>> # <<resp'.user, resp'.pk>> =>
                      ((p \in subscribed_publishers'[u])
                          <=> (p \in subscribed_publishers[u]))
            /\ subscribed_journalists' = subscribed_journalists
            /\ (resp.op = resp'.op /\ resp.user = resp'.user
                    /\ resp.pk = resp'.pk) =>
                  ((resp'.pk \in subscribed_publishers'[resp'.user])
                      <=> (resp.msg = "Unsubscribed"))
       /\ ToggleJournalistStep =>
            /\ (resp'.pk \in subscribed_journalists'[resp'.user])
                  # (resp'.pk \in subscribed_journalists[resp'.user])
            /\ \A u, j \in UserIds :
                  <<u, j>> # <<resp'.user, resp'.pk>> =>
                      ((j \in subscribed_journalists'[u])
                          <=> (j \in subscribed_journalists[u]))
            /\ subscribed_publishers' = subscribed_publishers
            /\ (resp.op = resp'.op /\ resp.user = resp'.user
                    /\ resp.pk = resp'.pk) =>
                  ((resp'.pk \in subscribed_journalists'[resp'.user])
                      <=> (resp.msg = "Unfollowed"))
       /\ \A u \in UserIds, p \in Publishers :
            Toggle(Toggle(subscribed_publishers[u], p), p)
                = subscribed_publishers[u]]_vars

\* C10 witness: a reader subscribed to p1 and toggled again: the answer says
\* unsubscribed and p1 is not among the reader's publishers, as at the start.
C10_Witness ==
    /\ resp.op = "subscribe_publisher_view"
    /\ resp.user = "r1"
    /\ resp.pk = "p1"
    /\ resp.msg = "Unsubscribed"
    /\ "p1" \notin subscribed_publishers["r1"]

\* The requests that edit or delete an article or a newsletter.
EditDeleteOps ==
    {"edit_article_view", "delete_article_view", "api_article_put",
     "api_article_delete", "edit_newsletter_view", "delete_newsletter_view",
     "api_newsletter_put", "api_newsletter_delete"}

\* C11: an edit or delete request made by a journalist, through the views or
\* through PUT/DELETE on the API, changes and removes no article and no
\* newsletter whose author is another user (a newsletter may lose an article
\* that the request deleted).
C11_JournalistTouchesOwnContentOnly ==
    [][( /\ resp'.op \in EditDeleteOps
         /\ IsAuthenticated(resp'.user)
         /\ RoleOf(resp'.user) = "journalist" ) =>
            /\ \A pk \in DOMAIN articles :
                  articles[pk].author # resp'.user =>
                      /\ pk \in DOMAIN articles'
                      /\ articles'[pk] = articles[pk]
            /\ \A n \in DOMAIN newsletters :
                  newsletters[n].author # resp'.user =>
                      /\ n \in DOMAIN newsletters'
                      /\ newsletters'[n] =
                            [newsletters[n] EXCEPT
                                !.articles = @ \cap DOMAIN articles']]_vars

\* The requester may update and delete the stored article pk: an editor, or
\* the journalist who wrote it.
MayChangeArticle(u, pk) ==
    /\ IsAuthenticated(u)
    /\ pk \in DOMAIN articles
    /\ \/ RoleOf(u) = "editor"
       \/ RoleOf(u) = "journalist" /\ articles[pk].author = u

\* C12: PUT and DELETE /articles/<id>/ on a stored article by an editor, or
\* by the journalist who wrote it, go through whether the article is approved
\* or pending: the DELETE answers 204 and the PUT 200 (400 when its body
\* fails validation), never not-found.
C12_PermittedPutDeleteSucceeds ==
    [][( /\ resp'.op \in {"api_article_put", "api_article_delete"}
         /\ MayChangeArticle(resp'.user, resp'.pk) ) =>
            /\ resp'.op = "api_article_delete" =>
                  resp'.status = 204 /\ resp'.pk \notin DOMAIN articles'
            /\ resp'.op = "api_article_put" => resp'.status \in {200, 400}]_vars

Journalists == {u \in UserIds : RoleOf(u) = "journalist"}

\* The article a create request of u is to leave: the next primary key holds
\* a pending row whose author is u.
CreatedFor(u) ==
    /\ nextId \in DOMAIN articles'
    /\ articles'[nextId].author = u
    /\ ~articles'[nextId].approved

\* The API's answer to a create of u: 201, showing author u and approved false.
Answered201(u) ==
    /\ resp'.status = 201
    /\ Len(resp'.body) = 1
    /\ resp'.body[1].id = nextId
    /\ resp'.body[1].author = u
    /\ ~resp'.body[1].approved

\* The last request created an article.
ArticleCreated ==
    \/ resp.op = "api_article_create" /\ resp.status = 201
    \/ resp.op = "create_article_view"
          /\ resp.msg = "Article submitted for approval!"

\* C13 as stated: every create request of a journalist, whatever its body
\* carries, yields a new pending article of the requester, and the API
\* answers 201 showing that author and approved = false.
C13_CreateAlwaysYieldsOwnPending ==
    \A u \in Journalists, b \in Bodies \cup ForgedBodies :
        /\ ~ENABLED (ArticleListView_create(u, {b})
                        /\ ~(CreatedFor(u) /\ Answered201(u)))
        /\ ~ENABLED (create_article_view(u, "POST", {b}) /\ ~CreatedFor(u))

\* C13 as amended: a create request of a journalist whose body passes
\* validation yields a new pending article of the requester, whatever author
\* or approved values the body carries, and the API answers 201 showing that
\* author and approved = false; a body that fails validation is answered 400
\* (the form again, on the web) and creates nothing.
C13_ValidCreateYieldsOwnPending ==
    /\ \A u \in Journalists, b \in Bodies \cup ForgedBodies :
          IF IsValidArticleInput(b)
          THEN /\ ~ENABLED (ArticleListView_create(u, {b})
                              /\ ~(CreatedFor(u) /\ Answered201(u)))
               /\ ~ENABLED (create_article_view(u, "POST", {b})
                              /\ ~CreatedFor(u))
          ELSE /\ ~ENABLED (ArticleListView_create(u, {b})
                              /\ ~(resp'.status = 400 /\ articles' = articles))
               /\ ~ENABLED (create_article_view(u, "POST", {b})
                              /\ ~(resp'.msg = "form" /\ articles' = articles))
    /\ ArticleCreated =>
          /\ resp.pk \in DOMAIN articles
          /\ articles[resp.pk].author = resp.user
          /\ ~articles[resp.pk].approved
          /\ RoleOf(resp.user) = "journalist"

\* C13 witness: the second article was created through the API by a
\* journalist other than the author of the first; the answer is 201 and
\* shows the requester as author and approved = false.
C13_Witness ==
    /\ resp.op = "api_article_create"
    /\ resp.status = 201
    /\ resp.pk = 2
    /\ 1 \in DOMAIN articles
    /\ articles[1].author # resp.user
    /\ resp.body[1].author = resp.user
    /\ ~resp.body[1].approved
    /\ articles[2].author = resp.user /\ ~articles[2].approved

\* The requests that create an article or a newsletter.
CreateOps ==
    {"create_article_view", "api_article_create", "create_newsletter_view",
     "api_newsletter_create"}

\* C14: a POST to an article or newsletter creation endpoint by an
\* authenticated reader or editor is answered 403 and creates no article and
\* no newsletter.
C14_OnlyJournalistsCreate ==
    [][( /\ resp'.op \in CreateOps
         /\ IsAuthenticated(resp'.user)
         /\ RoleOf(resp'.user) \in {"reader", "editor"} ) =>
            /\ resp'.status = 403
            /\ articles' = articles /\ nextId' = nextId
            /\ newsletters' = newsletters
            /\ nextNewsletterId' = nextNewsletterId
            /\ outbox' = <<>>]_vars

\* C14 witness: an editor posted a newsletter to the API while a journalist
\* could still have created one; the answer is 403 and no newsletter exists.
C14_Witness ==
    /\ resp.op = "api_newsletter_create"
    /\ resp.user = "e1"
    /\ resp.status = 403
    /\ newsletters = <<>>
    /\ nextNewsletterId <= MaxNewsletters

\* C15: no request made by a reader (create, edit, delete of an article or a
\* newsletter, approve of an article, on either surface) changes the set of
\* articles or newsletters or any field of one, or sends a notification.
C15_ReadersChangeNoContent ==
    [][( /\ IsAuthenticated(resp'.user)
         /\ RoleOf(resp'.user) = "reader" ) =>
            /\ articles' = articles /\ nextId' = nextId
            /\ newsletters' = newsletters
            /\ nextNewsletterId' = nextNewsletterId
            /\ outbox' = <<>>
            /\ resp'.op \in CreateOps \cup EditDeleteOps \cup ApproveOps =>
                  resp'.status = 403]_vars

\* C15 witness: a reader asked the API to delete an approved article and got
\* 403; the article is still stored.
C15_Witness ==
    /\ resp.op = "api_article_delete"
    /\ resp.user = "r1"
    /\ resp.status = 403
    /\ Exists(resp.pk)
    /\ articles[resp.pk].approved

\* The requests answered with newsletters.
NewsletterReadOps ==
    {"api_newsletter_list", "api_newsletter_get", "api_newsletter_create"}

\* The articles a response shows: the articles of an article response, the
\* articles nested in the newsletters of a newsletter response.
ShownArticles(r) ==
    IF r.op \in NewsletterReadOps
    THEN UNION {r.body[i].articles : i \in DOMAIN r.body}
    ELSE {r.body[i] : i \in DOMAIN r.body}

\* C16: no response given to a reader (article list, article detail,
\* subscribed feed, newsletter list, newsletter detail) shows an article whose
\* approved flag is false, the articles nested in a newsletter included.
C16_ReadersSeeApprovedOnly ==
    ( /\ IsAuthenticated(resp.user)
      /\ RoleOf(resp.user) = "reader" ) =>
        \A a \in ShownArticles(resp) : a.approved

\* The protected endpoints: the API's article and newsletter endpoints, the
\* subscribed feed and approve; on the web the dashboard, the create, edit,
\* delete and approve views, the subscription toggles and join and leave.
ProtectedOps ==
    {"api_article_list", "api_article_get", "api_article_create",
     "api_article_put", "api_article_delete", "api_subscribed",
     "approve_article_api", "api_newsletter_list", "api_newsletter_get",
     "api_newsletter_create", "api_newsletter_put", "api_newsletter_delete",
     "dashboard_view", "create_article_view", "edit_article_view",
     "delete_article_view", "approve_article_view", "create_newsletter_view",
     "edit_newsletter_view", "delete_newsletter_view",
     "subscribe_publisher_view", "subscribe_journalist_view",
     "join_publisher_view", "leave_publisher_view"}

\* C17: every request without credentials to a protected endpoint is
\* answered 401 or with the redirect to the login page, carries no data,
\* makes no write and no outbound call, and leaves the store as it was.
C17_AnonymousGetsNothing ==
    [][( /\ resp'.user = Anon
         /\ resp'.op \in ProtectedOps ) =>
            /\ \/ resp'.status = 401
               \/ resp'.status = 302 /\ resp'.msg = "login"
            /\ resp'.body = <<>>
            /\ outbox' = <<>>
            /\ store' = store]_vars

\* C17 witness: a client without credentials asked the API to delete an
\* approved article that is in a newsletter; the answer is 401 and the
\* article is still stored.
C17_Witness ==
    /\ resp.user = Anon
    /\ resp.op = "api_article_delete"
    /\ resp.status = 401
    /\ Exists(resp.pk)
    /\ articles[resp.pk].approved
    /\ \E n \in DOMAIN newsletters : resp.pk \in newsletters[n].articles

\* The decision of each surface on a request of user u: the request can go
\* through (the view redirects with its success message, the API answers
\* 200, 201 or 204).
WebAllows(action, u, pk) ==
    CASE action = "create_article" ->
            ENABLED (create_article_view(u, "POST", ContentCreateBodies)
                        /\ resp'.msg = "Article submitted for approval!")
      [] action = "edit_article" ->
            ENABLED (edit_article_view(u, pk, "POST", ContentEditBodies)
                        /\ resp'.msg = "Article updated successfully!")
      [] action = "delete_article" ->
            ENABLED (delete_article_view(u, pk, "POST")
                        /\ resp'.msg = "Article deleted successfully!")
      [] action = "approve_article" ->
            ENABLED (approve_article_view(u, pk, "POST", {"sent"}, {"201"})
                        /\ resp'.msg = "approved!")
      [] action = "create_newsletter" ->
            ENABLED (create_newsletter_view(u, "POST", NewsletterEditBodies)
                        /\ resp'.msg = "Newsletter created successfully!")
      [] action = "edit_newsletter" ->
            ENABLED (edit_newsletter_view(u, pk, "POST", NewsletterEditBodies)
                        /\ resp'.msg = "Newsletter updated!")
      [] action = "delete_newsletter" ->
            ENABLED (delete_newsletter_view(u, pk, "POST")
                        /\ resp'.msg = "Newsletter deleted!")

ApiAllows(action, u, pk) ==
    CASE action = "create_article" ->
            ENABLED (ArticleListView_create(u, ContentCreateBodies)
                        /\ resp'.status = 201)
      [] action = "edit_article" ->
            ENABLED (ArticleDetailView_put(u, pk, ContentEditBodies)
                        /\ resp'.status = 200)
      [] action = "delete_article" ->
            ENABLED (ArticleDetailView_delete(u, pk) /\ resp'.status = 204)
      [] action = "approve_article" ->
            ENABLED (approve_article_api(u, pk, {"sent"}, {"201"})
                        /\ resp'.status = 200)
      [] action = "create_newsletter" ->
            ENABLED (NewsletterListView_create(u, NewsletterEditBodies)
                        /\ resp'.status = 201)
      [] action = "edit_newsletter" ->
            ENABLED (NewsletterDetailView_put(u, pk, NewsletterEditBodies)
                        /\ resp'.status = 200)
      [] action = "delete_newsletter" ->
            ENABLED (NewsletterDetailView_delete(u, pk) /\ resp'.status = 204)

\* C18: for every user (every role), every action (create, edit, delete of an
\* article or a newsletter, approve of an article) and every stored target,
\* whoever wrote it, the view and the API endpoint decide alike: both let the
\* request through or both refuse it.
C18_SurfacesDecideAlike ==
    \A u \in UserIds :
        /\ \A action \in {"create_article", "create_newsletter"} :
              WebAllows(action, u, 0) <=> ApiAllows(action, u, 0)
        /\ \A action \in {"edit_article", "delete_article", "approve_article"} :
              \A pk \in DOMAIN articles :
                  WebAllows(action, u, pk) <=> ApiAllows(action, u, pk)
        /\ \A action \in {"edit_newsletter", "delete_newsletter"} :
              \A pk \in DOMAIN newsletters :
                  WebAllows(action, u, pk) <=> ApiAllows(action, u, pk)

\* The request just answered was a POST of user u to join (leave) publisher p
\* that got past the login and the lookup: the view redirected to the
\* publisher list.
MembershipPosted(op, u, p) ==
    /\ resp'.op = op
    /\ resp'.user = u
    /\ resp'.pk = p
    /\ resp'.status = 302

\* C19: a join request of a journalist adds the requester to the publisher's
\* journalist members and to nothing else, a join request of an editor adds
\* the requester to the editor members and to nothing else, a join request of
\* a reader is answered with the error message and leaves both relations as
\* they were; a leave request removes the requester from the relation of
\* their role and leaves the other relation as it was.
C19_MembershipFollowsRole ==
    [][\A u \in UserIds, p \in Publishers :
          /\ MembershipPosted("join_publisher_view", u, p) =>
                CASE RoleOf(u) = "journalist" ->
                        /\ publisher_journalists' =
                              [publisher_journalists EXCEPT ![p] = @ \cup {u}]
                        /\ publisher_editors' = publisher_editors
                  [] RoleOf(u) = "editor" ->
                        /\ publisher_editors' =
                              [publisher_editors EXCEPT ![p] = @ \cup {u}]
                        /\ publisher_journalists' = publisher_journalists
                  [] OTHER ->
                        /\ resp'.msg =
                              "Only journalists and editors can join publishers!"
                        /\ UNCHANGED members
          /\ MembershipPosted("leave_publisher_view", u, p) =>
                CASE RoleOf(u) = "journalist" ->
                        /\ publisher_journalists' =
                              [publisher_journalists EXCEPT ![p] = @ \ {u}]
                        /\ publisher_editors' = publisher_editors
                  [] RoleOf(u) = "editor" ->
                        /\ publisher_editors' =
                              [publisher_editors EXCEPT ![p] = @ \ {u}]
                        /\ publisher_journalists' = publisher_journalists
                  [] OTHER -> UNCHANGED members
      ]_vars

\* C19 witness: a journalist and an editor have joined the publisher, each is
\* a member under their own role only, and the reader's join request was
\* just refused with the error message.
C19_Witness ==
    /\ resp.op = "join_publisher_view"
    /\ resp.user = "r1"
    /\ resp.msg = "Only journalists and editors can join publishers!"
    /\ publisher_journalists["p1"] = {"j1"}
    /\ publisher_editors["p1"] = {"e1"}

\* C20: subscriptions are a reader's relation: every subscriber of a
\* publisher and every follower of a journalist has the role reader, and
\* every followed user has the role journalist.
C20_SubscribersAreReaders ==
    /\ \A p \in Publishers : \A u \in Subscribers(p) : RoleOf(u) = "reader"
    /\ \A j \in UserIds :
          Followers(j) # {} =>
              /\ RoleOf(j) = "journalist"
              /\ \A u \in Followers(j) : RoleOf(u) = "reader"

\* The request just answered was a web edit (an API PUT) of article pk that
\* went through.
WebEdited(pk) ==
    /\ resp'.op = "edit_article_view"
    /\ resp'.pk = pk
    /\ resp'.msg = "Article updated successfully!"
ApiPut(pk) ==
    /\ resp'.op = "api_article_put"
    /\ resp'.pk = pk
    /\ resp'.status = 200

\* C28: an edit changes only the editable fields: after a successful web edit
\* or API PUT the article is still stored and its author and approved flag
\* are those it had before the request, and after an API PUT so is its
\* publisher.
C28_EditKeepsAuthorAndApproval ==
    [][\A pk \in DOMAIN articles :
          /\ (WebEdited(pk) \/ ApiPut(pk)) =>
                /\ pk \in DOMAIN articles'
                /\ articles'[pk].author = articles[pk].author
                /\ articles'[pk].approved = articles[pk].approved
          /\ ApiPut(pk) => articles'[pk].publisher = articles[pk].publisher
      ]_vars

\* C28 witness: an editor's API PUT, whose body names no publisher, has just
\* rewritten the title of an approved article of a journalist; the article is
\* still approved, still the journalist's and still with its publisher.
C28_Witness ==
    /\ resp.op = "api_article_put"
    /\ resp.user = "e1"
    /\ resp.status = 200
    /\ resp.pk \in DOMAIN articles
    /\ articles[resp.pk].title = "t2"
    /\ articles[resp.pk].author = "j1"
    /\ articles[resp.pk].approved
    /\ articles[resp.pk].publisher = "p1"

\* C30: at the moment an article is approved, every user of its notification
\* audience, as get_article_subscribers computes it, has the article in
\* their subscribed feed, in whichever order the feed comes.
C30_AudienceHasArticleInFeed ==
    (ApproveSucceeded /\ Exists(resp.pk)) =>
        \A u \in get_article_subscribers(articles[resp.pk]) :
            \A q \in SubscribedArticles(u) :
                \E i \in DOMAIN q : q[i] = resp.pk

\* C30 witness: two articles were approved, the later one has no publisher,
\* and its audience is the reader who follows its author and who is also
\* subscribed to the publisher of the other.
C30_Witness ==
    /\ ApproveSucceeded
    /\ Exists(resp.pk)
    /\ articles[resp.pk].publisher = NoPublisher
    /\ get_article_subscribers(articles[resp.pk]) = {"r1"}
    /\ "p1" \in subscribed_publishers["r1"]
    /\ \E pk \in DOMAIN articles :
          articles[pk].publisher = "p1" /\ articles[pk].approved

\* The views and endpoints that take an article, a newsletter or a publisher
\* id.
ArticleIdOps ==
    {"edit_article_view", "delete_article_view", "approve_article_view",
     "article_detail_view", "api_article_get", "api_article_put",
     "api_article_delete", "approve_article_api"}
NewsletterIdOps ==
    {"edit_newsletter_view", "delete_newsletter_view",
     "newsletter_detail_view", "api_newsletter_get", "api_newsletter_put",
     "api_newsletter_delete"}
PublisherIdOps ==
    {"subscribe_publisher_view", "join_publisher_view", "leave_publisher_view"}

\* The request just answered named an id that had no stored record.
NamedMissing ==
    \/ resp'.op \in ArticleIdOps /\ resp'.pk \notin DOMAIN articles
    \/ resp'.op \in NewsletterIdOps /\ resp'.pk \notin DOMAIN newsletters
    \/ resp'.op \in PublisherIdOps /\ resp'.pk \notin Publishers

\* The requester passes the login and permission checks that the view or
\* endpoint makes before it looks the record up.
MayLookUp(op, u) ==
    CASE op = "edit_article_view" -> HasPerm(u, "change_article")
      [] op = "delete_article_view" -> HasPerm(u, "delete_article")
      [] op = "approve_article_view" -> HasPerm(u, "can_approve_article")
      [] op = "edit_newsletter_view" -> HasPerm(u, "change_newsletter")
      [] op = "delete_newsletter_view" -> HasPerm(u, "delete_newsletter")
      [] op \in {"api_article_put", "api_article_delete", "api_newsletter_put",
                 "api_newsletter_delete"} ->
            IsAuthenticated(u) /\ RoleOf(u) \in {"journalist", "editor"}
      [] op = "approve_article_api" ->
            IsAuthenticated(u) /\ RoleOf(u) = "editor"
      [] op \in {"api_article_get", "api_newsletter_get"} \cup PublisherIdOps ->
            IsAuthenticated(u)
      [] op \in {"article_detail_view", "newsletter_detail_view"} -> TRUE

\* C24 as stated: every request that names an article, newsletter or
\* publisher id with no stored record is answered 404, whoever makes it,
\* changes no state and sends no notification.
C24_MissingIdAlways404 ==
    [][NamedMissing =>
          /\ resp'.status = 404
          /\ UNCHANGED store
          /\ outbox' = <<>>]_vars

\* C24 as amended: a request that names an id with no stored record is
\* answered 404 when its requester passes the login and permission checks of
\* the view or endpoint, and is refused like any other request of that
\* requester (302 to the login page, 401 or 403) when not; either way it
\* changes no state and sends no notification.
C24_MissingIdIs404AfterPermission ==
    [][NamedMissing =>
          /\ IF MayLookUp(resp'.op, resp'.user)
             THEN resp'.status = 404
             ELSE resp'.status \in {302, 401, 403}
          /\ UNCHANGED store
          /\ outbox' = <<>>]_vars

\* C24 witness: an editor asked the API to approve an article that had been
\* created and deleted, and was answered 404 with nothing sent.
C24_Witness ==
    /\ resp.op = "approve_article_api"
    /\ resp.user = "e1"
    /\ resp.status = 404
    /\ resp.pk < nextId
    /\ resp.pk \notin DOMAIN articles
    /\ outbox = <<>>

\* C23: after registration, and after any call of assign_user_to_group, a
\* user belongs to exactly one permission group, the one named for their
\* role, and to no other.
C23_OneGroupNamedForRole ==
    \A u \in UserIds : users[u].groups = {RoleToGroup(users[u].role)}

\* Every reference in the store is to a stored record.
ReferencesStored ==
    /\ \A pk \in DOMAIN articles :
          /\ articles[pk].author \in UserIds
          /\ articles[pk].publisher \in Publishers \cup {NoPublisher}
    /\ \A n \in DOMAIN newsletters :
          /\ newsletters[n].author \in UserIds
          /\ newsletters[n].articles \subseteq DOMAIN articles
    /\ DOMAIN subscribed_publishers = UserIds
    /\ DOMAIN subscribed_journalists = UserIds
    /\ \A u \in UserIds :
          /\ subscribed_publishers[u] \subseteq Publishers
          /\ subscribed_journalists[u] \subseteq UserIds
    /\ DOMAIN publisher_journalists = Publishers
    /\ DOMAIN publisher_editors = Publishers
    /\ \A p \in Publishers :
          /\ publisher_journalists[p] \subseteq UserIds
          /\ publisher_editors[p] \subseteq UserIds

C27_StatusTextWithinLimit ==
    tweeted.text # <<>> =>
        LET full == TweetText(tweeted.title, tweeted.username)
        IN  /\ Len(tweeted.text) <= 280
            /\ Len(full) > 280 =>
                  /\ Len(tweeted.text) = 280
                  /\ \A i \in 1 .. 277 : tweeted.text[i] = full[i]
                  /\ \A i \in 278 .. 280 : tweeted.text[i] = "."
            /\ Len(full) <= 280 => tweeted.text = full

\* C27 witness: a text of 281 characters was cut to 280, the last three of
\* them dots.
C27_Witness ==
    /\ tweeted.text # <<>>
    /\ Len(TweetText(tweeted.title, tweeted.username)) = 281
    /\ Len(tweeted.text) = 280
    /\ tweeted.text[280] = "."
    /\ tweeted.text[277] # "."

\* C21: under any interleaving of an edit request, which reads the article
\* row and later writes the whole row back, and an approve request, which
\* sets approved = true and saves, the flag of a stored article is never
\* false once an approve of it has saved it as true.
C21_ApprovalSurvivesConcurrentEdit ==
    \A s \in DOMAIN inflight :
        (/\ inflight[s].kind = "approve"
         /\ inflight[s].pc # "loaded"
         /\ inflight[s].pk \in DOMAIN articles)
            => articles[inflight[s].pk].approved

\* C22: every approve request of an editor on a stored article returns a
\* response in the end, whatever the email and social-post services do, even
\* if they never answer.
C22_ApproveEventuallyResponds ==
    \A s \in Slots : At(s, "approve", "loaded") ~> At(s, "approve", "done")

\* Two requests of the store's slots that toggle the same membership of the
\* same user.
ToggleKinds == {"subscribe_publisher", "subscribe_journalist"}
SameToggle(s, t) ==
    /\ s # t
    /\ inflight[s].kind \in ToggleKinds
    /\ inflight[s].kind = inflight[t].kind
    /\ inflight[s].user = inflight[t].user
    /\ inflight[s].pk = inflight[t].pk

IsMember(r) ==
    IF r.kind = "subscribe_publisher"
    THEN r.pk \in subscribed_publishers[r.user]
    ELSE r.pk \in subscribed_journalists[r.user]

\* C26: two toggle requests of the same user for the same target, whatever
\* the order of their read and write steps, leave the membership at its
\* original value, as two toggles one after the other do.  (Every membership
\* is empty at the start, so the original value is "not a member".)
C26_TwoTogglesRestore ==
    \A s, t \in DOMAIN inflight :
        (/\ SameToggle(s, t)
         /\ inflight[s].pc = "done"
         /\ inflight[t].pc = "done"
         /\ \A r \in DOMAIN inflight \ {s, t} : ~SameToggle(s, r))
            => ~IsMember(inflight[s])

\* C29: a deleted article does not come back: once a delete request and an
\* approve request on the same article have both finished, in whatever order
\* their steps ran, the article is not in the store.
C29_DeletedArticleStaysDeleted ==
    \A s, t \in DOMAIN inflight :
        (/\ inflight[s].kind = "delete"
         /\ inflight[t].kind = "approve"
         /\ inflight[s].pk = inflight[t].pk
         /\ inflight[s].pc = "done"
         /\ inflight[t].pc = "done")
            => inflight[s].pk \notin DOMAIN articles

====
